---------------------------- MODULE Spec2Model ----------------------------
(***************************************************************************)
(* Fingerprint attendance terminal (ESP32 sketch, two variants).           *)
(*                                                                         *)
(*   basic    : src/sketch_jun1a000/sketch_jun1a000.ino                    *)
(*   extended : src/unnamed/part_000  (adds the Base64 template field)     *)
(*                                                                         *)
(* The model covers the offline-first attendance protocol: the SD queue    *)
(* file, recordAttendance, syncOfflineLogs (step by step, so that loss of  *)
(* connectivity and loss of power can fall between its steps), setup and   *)
(* attemptToClearAllData.  Text written to and parsed from the SD card is  *)
(* modelled character by character.                                        *)
(*                                                                         *)
(* A string is a sequence of one-character strings.  C++ indices are       *)
(* 0-based with -1 for "not found"; here they are 1-based with 0 for       *)
(* "not found".                                                            *)
(***************************************************************************)
EXTENDS Integers, Sequences, FiniteSets, TLC

(***************************************************************************)
(* Bounds of the model                                                     *)
(***************************************************************************)
\* Number of attendance events with a valid clock in one behaviour.
MaxEvents == 2
\* First RTC reading, scaled down (a valid DateTime is never 0); chosen so
\* that timestamps of one and of two digits both occur.
T0 == 9
\* Number of SD card failures (a failed SD.open, a short write) in one
\* behaviour of a device whose card can fail.
MaxStorageFaults == 1
\* Where time is tracked: the ms between two readings of millis() that the
\* model tells apart, and the number of such steps after which millis(),
\* an unsigned long, wraps round.
TickMs == 100000
TicksPerWrap == 8
ClockModulus == TicksPerWrap * TickMs

(***************************************************************************)
(* Program constants                                                       *)
(***************************************************************************)
HTTP_CODE_OK == 200
HTTP_CODE_CREATED == 201
\* loop(): the periodic drain's interval, in ms.
SYNC_INTERVAL == 300000
\* Size of fingerprintCache and of the sensor's template store.
CacheSize == 128

Variants == {"basic", "extended"}
\* Identifiers enrolled on the sensor in the model (a subset of 0..127).
Ids == {3, 7}
\* The identifier the server hands out to the next enrollment, and the
\* entries of fingerprintCache[128] that are looked at.
FreeId == 5
Slots == Ids \cup {FreeId}

(***************************************************************************)
(* Characters and strings                                                  *)
(***************************************************************************)
NL == "\n"
CR == "\r"
COMMA == ","
Digits == <<"0", "1", "2", "3", "4", "5", "6", "7", "8", "9">>

IsDigit(c) == \E d \in 1..10 : Digits[d] = c
DigitVal(c) == (CHOOSE d \in 1..10 : Digits[d] = c) - 1
\* isspace(): the characters String::trim(), atol() and strtoul() skip.
IsSpace(c) == c \in {" ", "\t", NL, CR}

\* printf("%u") / printf("%lu"): decimal digits, no leading zeros.
RECURSIVE FormatUInt(_)
FormatUInt(n) ==
  IF n < 10 THEN <<Digits[n + 1]>>
  ELSE FormatUInt(n \div 10) \o <<Digits[(n % 10) + 1]>>

\* String::indexOf(ch): first position of ch, 0 when absent.
IndexOf(s, ch) ==
  IF \E i \in 1..Len(s) : s[i] = ch
  THEN CHOOSE i \in 1..Len(s) : s[i] = ch /\ \A j \in 1..(i - 1) : s[j] # ch
  ELSE 0

\* String::lastIndexOf(ch): last position of ch, 0 when absent.
LastIndexOf(s, ch) ==
  IF \E i \in 1..Len(s) : s[i] = ch
  THEN CHOOSE i \in 1..Len(s) : s[i] = ch /\ \A j \in (i + 1)..Len(s) : s[j] # ch
  ELSE 0

\* String::substring(from, to) in 1-based, inclusive positions.
Sub(s, from, to) == IF from > to THEN <<>> ELSE SubSeq(s, from, to)

\* String::trim(): strips leading and trailing whitespace.
Trim(s) ==
  IF \A i \in 1..Len(s) : IsSpace(s[i]) THEN <<>>
  ELSE LET a == CHOOSE i \in 1..Len(s) :
                  ~IsSpace(s[i]) /\ \A j \in 1..(i - 1) : IsSpace(s[j])
           b == CHOOSE i \in 1..Len(s) :
                  ~IsSpace(s[i]) /\ \A j \in (i + 1)..Len(s) : IsSpace(s[j])
       IN SubSeq(s, a, b)

\* Value of the leading run of digits of s (0 when there is none).
RECURSIVE DigitsValue(_, _)
DigitsValue(s, acc) ==
  IF s = <<>> \/ ~IsDigit(Head(s)) THEN acc
  ELSE DigitsValue(Tail(s), acc * 10 + DigitVal(Head(s)))

RECURSIVE SkipSpace(_)
SkipSpace(s) == IF s # <<>> /\ IsSpace(Head(s)) THEN SkipSpace(Tail(s)) ELSE s

\* strtoul(s, NULL, 10): skips whitespace, converts the leading digits and
\* stops at the first other character; 0 when no digit was found.  (Signs do
\* not occur in the model's alphabet.)
Strtoul(s) == DigitsValue(SkipSpace(s), 0)

\* (uint16_t) String::toInt(): atol() narrowed to 16 bits.
ToUInt16(s) == DigitsValue(SkipSpace(s), 0) % 65536

(***************************************************************************)
(* Files on the SD card                                                    *)
(***************************************************************************)
NoFile == [exists |-> FALSE, data |-> <<>>]
EmptyFile == [exists |-> TRUE, data |-> <<>>]

\* Stream::readStringUntil('\n') on the unread part of a file: the text
\* before the first newline (the newline is consumed), or everything left.
ReadStringUntil(rest) ==
  LET i == IndexOf(rest, NL)
  IN IF i = 0 THEN [line |-> rest, rest |-> <<>>]
     ELSE [line |-> Sub(rest, 1, i - 1), rest |-> Sub(rest, i + 1, Len(rest))]

\* File::size() == 0 or no such file: what SD.open(LOG_FILE, FILE_READ) finds.
NothingToRead(f) == ~f.exists \/ Len(f.data) = 0

\* SD.open(path, FILE_APPEND) followed by a complete write of text and close:
\* the file is created when it does not exist.
Appended(f, text) == [exists |-> TRUE, data |-> f.data \o text]

(***************************************************************************)
(* Queue line format                                                       *)
(***************************************************************************)
\* An attendance record as it travels: basic records carry an empty template.
Rec(id, tpl, ts) == [id |-> id, tpl |-> tpl, ts |-> ts]

\* An extended sketch that writes the basic sketch's line.
FormatLineBasic(v, id, tpl, ts) ==
  FormatUInt(id) \o <<COMMA>> \o FormatUInt(ts) \o <<NL>>

\* logAttendanceOffline: printf("%u,%lu\n") (basic),
\* printf("%u,%s,%lu\n") (extended).
FormatLine(v, id, tpl, ts) ==
  IF v = "basic"
  THEN FormatUInt(id) \o <<COMMA>> \o FormatUInt(ts) \o <<NL>>
  ELSE FormatUInt(id) \o <<COMMA>> \o tpl \o <<COMMA>> \o FormatUInt(ts) \o <<NL>>

\* A drain loop that takes every line for a record.
MalformedNever(v, line) == FALSE

\* syncOfflineLogs, the test that skips a line: no comma (basic); no comma
\* or a single comma (extended).
Malformed(v, line) ==
  IF v = "basic"
  THEN IndexOf(line, COMMA) = 0
  ELSE \/ IndexOf(line, COMMA) = 0
       \/ LastIndexOf(line, COMMA) = 0
       \/ IndexOf(line, COMMA) = LastIndexOf(line, COMMA)

\* A drain loop that reads the timestamp after the first comma.
ParseTimestampFirst(v, line) ==
  Strtoul(Sub(line, IndexOf(line, COMMA) + 1, Len(line)))

\* syncOfflineLogs, the timestamp field: the text after the (last) comma.
ParseTimestamp(v, line) ==
  IF v = "basic"
  THEN Strtoul(Sub(line, IndexOf(line, COMMA) + 1, Len(line)))
  ELSE Strtoul(Sub(line, LastIndexOf(line, COMMA) + 1, Len(line)))

\* syncOfflineLogs, the id field: the text before the first comma.
ParseId(v, line) == ToUInt16(Sub(line, 1, IndexOf(line, COMMA) - 1))

\* syncOfflineLogs, the template field (extended): between the two commas.
ParseTemplate(v, line) ==
  IF v = "basic" THEN <<>>
  ELSE Sub(line, IndexOf(line, COMMA) + 1, LastIndexOf(line, COMMA) - 1)

\* The record syncOfflineLogs hands to logAttendanceToServer for a line.
ParseLine(v, line) ==
  Rec(ParseId(v, line), ParseTemplate(v, line), ParseTimestamp(v, line))

\* The lines of a file as the drain loop sees them: split at newlines,
\* trimmed, empty lines dropped.
RECURSIVE LinesOf(_)
LinesOf(data) ==
  IF data = <<>> THEN <<>>
  ELSE LET r == ReadStringUntil(data)
           t == Trim(r.line)
       IN (IF t = <<>> THEN <<>> ELSE <<t>>) \o LinesOf(r.rest)

RECURSIVE MapParse(_, _)
MapParse(v, lines) ==
  IF lines = <<>> THEN <<>>
  ELSE (IF Malformed(v, Head(lines)) THEN <<>> ELSE <<ParseLine(v, Head(lines))>>)
       \o MapParse(v, Tail(lines))

\* The records a drain would offer to the server for this file content.
RecordsOf(v, data) == MapParse(v, LinesOf(data))

Range(s) == {s[i] : i \in 1..Len(s)}

(***************************************************************************)
(* Server replies                                                          *)
(***************************************************************************)
\* What one HTTP exchange can come to: the status the device sees (negative:
\* HTTPClient's error codes) and whether the server processed the request.
\* -1 is "connection refused"; -11 is "read timeout": the request was
\* processed and the answer never arrived.
Replies ==
  { [code |-> 200, stored |-> TRUE], [code |-> 201, stored |-> TRUE],
    [code |-> 500, stored |-> FALSE], [code |-> -1, stored |-> FALSE],
    [code |-> -11, stored |-> TRUE] }

\* The server's contract for POST /api/AttendanceLogs: 200 and 201 acknowledge.
Acknowledges(reply) == reply.code \in {200, 201}

\* A status test that takes 200 alone for success.
HttpSuccessOkOnly(code) == code = HTTP_CODE_OK

\* A status test that takes every answer of the server for success.
HttpSuccessAnyStatus(code) == code > 0

\* logAttendanceToServer's test of the status.
HttpSuccess(code) == code = HTTP_CODE_OK \/ code = HTTP_CODE_CREATED

\* logAttendanceToServer: false without a request when WiFi is down.
LogAttendanceToServer(isOnline, code) == isOnline /\ HttpSuccess(code)

(***************************************************************************)
(* State                                                                   *)
(***************************************************************************)
VARIABLES
  variant,           \* which sketch runs: "basic" or "extended"
  client,            \* the WiFiClientSecure every request goes through:
                     \* whether setInsecure() has configured it; tracked
                     \* only where a specification says so
  twins,             \* the two sketches run side by side on the same calls:
                     \* for each its queue file and what it has transmitted
  timer,             \* the clock of loop(): millis(), lastSyncAttempt, and
                     \* for the properties the time gone by since the last
                     \* periodic attempt (since boot when there was none);
                     \* tracked only where a specification says so
  faults,            \* hardware faults to come: whether power can fail,
                     \* how many more times the SD card fails, and whether
                     \* commands to the fingerprint sensor can fail
  pc,                \* "boot", "halted", "idle", "synced" (setup is about to
                     \* call syncOfflineLogs), "scanned" (recordAttendance
                     \* has returned to scanForFingerprint), "shown"
                     \* (syncAndDisplayServerData has returned), "enrolled"
                     \* (enrollNewFingerprint is about to return), "cleared"
                     \* (attemptToClearAllData is about to return), a place
                     \* in syncOfflineLogs: "read", "remove", "rename",
                     \* "return", or, where a handler is taken wait by wait,
                     \* a wait of enrollNewFingerprint ("place1", "lift",
                     \* "place2", "store", "naming") or "password"
  online,            \* WiFi.status() == WL_CONNECTED
  now,               \* next reading of rtc.now().unixtime()
  currentMenuState,  \* "MAIN_MENU" or "OPTIONS_MENU"
  fingerprintCache,  \* id -> cached name, a string of characters (<<>>
                     \* when empty)
  sensor,            \* ids that hold a template on the fingerprint sensor
  roster,            \* the server's roster: id -> name
  LOG_FILE,          \* /attendance_log.txt on the SD card
  tempLogFile,       \* /temp_log.txt on the SD card
  unread,            \* syncOfflineLogs: what logFile has not yet read
  syncedCount,       \* syncOfflineLogs: its two counters
  failedCount,
  \* History, kept for the properties only.
  events,            \* records created by recordAttendance (clock valid)
  wire,              \* records POSTed to the server (any outcome)
  served,            \* record -> 1 or 2: processed by the server once, more
  acked,             \* records whose 200/201 reached the device
  allAccepted,       \* the server has acknowledged every request it was sent
  wiped,             \* records that were in the log file when
                     \* attemptToClearAllData removed it
  pass,              \* the drain pass under way: the queue at its start and
                     \* the records whose transmission failed in it
  call               \* the handler under way (a scan, a roster fetch, an
                     \* enrollment): its inputs and the state it began in

deviceVars == <<pc, online, now, currentMenuState, fingerprintCache, sensor, roster>>
sdVars == <<LOG_FILE, tempLogFile>>
drainVars == <<unread, syncedCount, failedCount>>
historyVars == <<events, wire, served, acked, allAccepted, wiped, pass, call>>
vars == <<variant, client, twins, faults, timer, deviceVars, sdVars, drainVars, historyVars>>

EmptyCache == [i \in Slots |-> <<>>]

\* A device whose loop() also runs after setup() has halted.
LoopRunsAfterHalt == pc \in {"idle", "halted"}

\* loop() is at the point where it calls its handlers: setup() has returned
\* and no handler is under way.
LoopRuns == pc = "idle"
NoPass == [start |-> <<>>, failed |-> {}]
EmptyCount == [r \in {} |-> 0]

\* One more occurrence of r in a saturating count (2 stands for "2 or more").
Counted(count, r) ==
  IF r \in DOMAIN count
  THEN [count EXCEPT ![r] = 2]
  ELSE [x \in DOMAIN count \cup {r} |-> IF x = r THEN 1 ELSE count[x]]

\* The clock at power-on, tracked or not.
Clock(tracked) ==
  [tracked |-> tracked, millis |-> 0, lastSyncAttempt |-> 0, elapsed |-> 0]

\* Two devices, one with each sketch, as switched on: nothing queued and
\* nothing transmitted.
NewTwins == [v \in Variants |-> [file |-> NoFile, sent |-> <<>>]]

\* The global WiFiClientSecure as constructed: setInsecure() not yet called.
NewClient(tracked) == [tracked |-> tracked, insecure |-> FALSE]

\* client.setInsecure(), the one configuration the sketches give the client.
SetInsecure(c) == [c EXCEPT !.insecure = c.tracked]

\* The state of a device switched on with both identifiers enrolled on the
\* sensor and known to the server.
InitDevice(hardware, clock, log, tls) ==
  /\ variant \in Variants
  /\ client = tls
  /\ twins = NewTwins
  /\ faults = hardware
  /\ timer = clock
  /\ pc = "boot"
  /\ online = FALSE
  /\ now = T0
  /\ currentMenuState = "MAIN_MENU"
  /\ fingerprintCache = EmptyCache
  /\ sensor = Ids
  /\ roster = [i \in Ids |-> IF i = 3 THEN <<"A", "l">> ELSE <<"B", "o">>]
  /\ LOG_FILE = log
  /\ tempLogFile = NoFile
  /\ unread = <<>>
  /\ syncedCount = 0
  /\ failedCount = 0
  /\ events = {}
  /\ wire = {}
  /\ served = EmptyCount
  /\ acked = {}
  /\ allAccepted = TRUE
  /\ wiped = {}
  /\ pass = NoPass
  /\ call = <<>>

\* The same with the secure client's configuration left out of the state.
InitState(hardware, clock, log) ==
  InitDevice(hardware, clock, log, NewClient(FALSE))

\* A device switched on for the first time: nothing on the SD card.
InitFaulty(hardware) == InitState(hardware, Clock(FALSE), NoFile)

\* The same with a fingerprint sensor that obeys every command.
InitWith(powerFails, storageFaults) ==
  InitFaulty([power |-> powerFails, storage |-> storageFaults, sensor |-> FALSE])

Init == InitWith(FALSE, 0)

(***************************************************************************)
(* History bookkeeping                                                     *)
(***************************************************************************)
\* A POST of record r that came to reply.
Transmitted(r, reply) ==
  /\ wire' = wire \cup {r}
  /\ served' = IF reply.stored THEN Counted(served, r) ELSE served
  /\ acked' = IF Acknowledges(reply) THEN acked \cup {r} ELSE acked
  /\ allAccepted' = (allAccepted /\ Acknowledges(reply))

\* A call of logAttendanceToServer that found WiFi down: nothing is sent.
NotTransmitted == UNCHANGED <<wire, served, acked, allAccepted>>

(***************************************************************************)
(* recordAttendance / logAttendanceOffline / scanForFingerprint            *)
(***************************************************************************)
\* What getFingerprintTemplateAsBase64 can return: "" on failure, else the
\* Base64 text of the template.  The basic sketch has no template.
TemplateReads(v) ==
  IF v = "basic" THEN {<<>>} ELSE {<<>>, <<"Q", "Q", "=", "=">>}

\* What logAttendanceOffline's SD calls can come to, as the number of
\* characters printf wrote: -1 when SD.open failed, Len(line) when all of the
\* line was written.  Short writes happen only with a faulty card.
WriteOutcomes(line) ==
  IF faults.storage > 0 THEN (-1)..Len(line) ELSE {Len(line)}

\* The faults to come after an SD call that failed or not.
FaultsAfter(failed) ==
  IF failed THEN [faults EXCEPT !.storage = @ - 1] ELSE faults

\* logAttendanceOffline: the log file after the call.
LogAttendanceOffline(f, line, written) ==
  IF written < 0 THEN f ELSE Appended(f, Sub(line, 1, written))

\* A recordAttendance without the clock test.
DiscardsNever(clockValid) == FALSE

\* recordAttendance's first test: the event is dropped when the RTC reading
\* is not valid.
Discards(clockValid) == ~clockValid

\* A recordAttendance that saves only what the server refused, and nothing
\* while WiFi is down.
SavesOfflineOnlyRefused(isOnline, code) == isOnline /\ ~LogAttendanceToServer(isOnline, code)

\* recordAttendance: the record goes to the SD card when WiFi is down or
\* logAttendanceToServer returned false.
SavesOffline(isOnline, code) == ~isOnline \/ ~LogAttendanceToServer(isOnline, code)

RecordAttendance(id, tpl, clockValid, reply) ==
  IF Discards(clockValid)
  THEN UNCHANGED <<faults, now, LOG_FILE, events, wire, served, acked, allAccepted>>
  ELSE /\ now < T0 + MaxEvents
       /\ now' = now + 1
       /\ events' = events \cup {Rec(id, tpl, now)}
       /\ IF online
          THEN Transmitted(Rec(id, tpl, now), reply)
          ELSE NotTransmitted
       /\ IF SavesOffline(online, reply.code)
          THEN \E written \in WriteOutcomes(FormatLine(variant, id, tpl, now)) :
                 /\ LOG_FILE' = LogAttendanceOffline(
                                  LOG_FILE, FormatLine(variant, id, tpl, now), written)
                 /\ faults' = FaultsAfter(
                                written # Len(FormatLine(variant, id, tpl, now)))
          ELSE UNCHANGED <<LOG_FILE, faults>>

\* What a scan leaves for the properties: its inputs, and the log file and
\* the requests sent as they were when it began.
Scanned(id, tpl, clockValid, reply) ==
  [ id |-> id, tpl |-> tpl, ts |-> now, clockValid |-> clockValid,
    read |-> (variant = "basic" \/ tpl # <<>>),
    online |-> online, acknowledged |-> (online /\ Acknowledges(reply)),
    log |-> LOG_FILE, wire |-> wire ]

\* scanForFingerprint, on a match: finger.fingerID is an enrolled id.  The
\* extended sketch first reads the template back and logs nothing when that
\* fails.
ScanForFingerprint ==
  /\ LoopRuns
  /\ \E id \in sensor, tpl \in TemplateReads(variant),
        clockValid \in BOOLEAN, reply \in Replies :
       /\ call' = <<Scanned(id, tpl, clockValid, reply)>>
       /\ IF variant = "extended" /\ tpl = <<>>
          THEN UNCHANGED <<faults, now, LOG_FILE, events, wire, served, acked, allAccepted>>
          ELSE RecordAttendance(id, tpl, clockValid, reply)
  /\ pc' = "scanned"
  /\ UNCHANGED <<variant, client, twins, timer, online, currentMenuState, fingerprintCache>>
  /\ UNCHANGED <<sensor, roster, tempLogFile, drainVars, wiped, pass>>

\* scanForFingerprint restores the prompt and returns to loop().
ScanReturn ==
  /\ pc = "scanned"
  /\ pc' = "idle"
  /\ call' = <<>>
  /\ UNCHANGED <<variant, client, twins, timer, faults, online, now, currentMenuState, fingerprintCache>>
  /\ UNCHANGED <<sensor, roster, sdVars, drainVars>>
  /\ UNCHANGED <<events, wire, served, acked, allAccepted, wiped, pass>>

(***************************************************************************)
(* The environment                                                         *)
(***************************************************************************)
\* WiFi comes and goes at any time once the device runs.
WiFiChange ==
  /\ pc \notin {"boot", "halted"}
  /\ online' = ~online
  /\ UNCHANGED <<variant, client, twins, timer, faults, pc, now, currentMenuState, fingerprintCache>>
  /\ UNCHANGED <<sensor, roster, sdVars, drainVars, historyVars>>

(***************************************************************************)
(* syncOfflineLogs                                                         *)
(***************************************************************************)
\* Whether SD.open(tempLogFile, FILE_WRITE) can fail.
TempOpens == IF faults.storage > 0 THEN BOOLEAN ELSE {TRUE}

\* A drain that goes on without its temporary file.
NoTempFileIgnored(opened) == FALSE

\* syncOfflineLogs, the test of the temporary file: if (!tempFile).
NoTempFile(opened) == ~opened

\* The call, up to the first pass of the while loop.  isOnline is what
\* WiFi.status() says as the function is entered.
SyncOfflineLogs(isOnline) ==
  IF ~isOnline
  THEN /\ pc' = "idle"
       /\ UNCHANGED <<faults, tempLogFile, drainVars, pass>>
  ELSE IF NothingToRead(LOG_FILE)
  THEN /\ pc' = "idle"
       /\ pass' = NoPass
       /\ UNCHANGED <<faults, tempLogFile, drainVars>>
  ELSE \E opened \in TempOpens :
         /\ faults' = FaultsAfter(~opened)
         /\ IF NoTempFile(opened)
            THEN /\ tempLogFile' = NoFile
                 /\ pc' = "idle"
                 /\ pass' = NoPass
                 /\ UNCHANGED drainVars
            ELSE /\ tempLogFile' = EmptyFile
                 /\ unread' = LOG_FILE.data
                 /\ syncedCount' = 0
                 /\ failedCount' = 0
                 /\ pass' = [start |-> RecordsOf(variant, LOG_FILE.data), failed |-> {}]
                 /\ pc' = "read"

\* A loop body that rewrites every line, and one that rewrites none.
RetainsAlways(isOnline, code) == TRUE
RetainsNever(isOnline, code) == FALSE

\* A loop body that rewrites only the lines the server refused.
RetainsRefused(isOnline, code) == isOnline /\ ~HttpSuccess(code)

\* The loop body's decision for a line: the trimmed line is written to the
\* temporary file when logAttendanceToServer returned false.
Retains(isOnline, code) == ~LogAttendanceToServer(isOnline, code)

\* A rewrite that puts the line in front of what the file holds.
PrintlnFront(f, line) == [exists |-> TRUE, data |-> line \o <<CR, NL>> \o f.data]

\* tempFile.println(line): the line and "\r\n".
Println(f, line) == [exists |-> TRUE, data |-> f.data \o line \o <<CR, NL>>]

\* The loop body after a line has been read and trimmed.
SyncTrimmedLine(line) ==
  IF line = <<>> \/ Malformed(variant, line)
  THEN UNCHANGED <<tempLogFile, syncedCount, failedCount>>
       /\ UNCHANGED <<wire, served, acked, allAccepted, pass>>
  ELSE \E reply \in Replies, rec \in {ParseLine(variant, line)} :
         /\ IF online
            THEN Transmitted(rec, reply)
            ELSE NotTransmitted
         /\ pass' = IF online /\ Acknowledges(reply) THEN pass
                    ELSE [pass EXCEPT !.failed = @ \cup {rec}]
         /\ IF Retains(online, reply.code)
            THEN /\ tempLogFile' = Println(tempLogFile, line)
                 /\ failedCount' = failedCount + 1
                 /\ UNCHANGED syncedCount
            ELSE /\ syncedCount' = syncedCount + 1
                 /\ UNCHANGED <<tempLogFile, failedCount>>

\* One pass of the while loop: one line read from the log file.
SyncLine ==
  /\ pc = "read"
  /\ unread # <<>>
  /\ \E r \in {ReadStringUntil(unread)} :
       /\ unread' = r.rest
       /\ \E line \in {Trim(r.line)} : SyncTrimmedLine(line)
  /\ pc' = pc
  /\ UNCHANGED <<variant, client, twins, timer, faults, online, now, currentMenuState, fingerprintCache>>
  /\ UNCHANGED <<sensor, roster, LOG_FILE, events, wiped, call>>

\* The loop has ended: logFile.close(); tempFile.close().
SyncClose ==
  /\ pc = "read"
  /\ unread = <<>>
  /\ pc' = "remove"
  /\ UNCHANGED <<variant, client, twins, timer, faults, online, now, currentMenuState, fingerprintCache>>
  /\ UNCHANGED <<sensor, roster, sdVars, drainVars, historyVars>>

\* SD.remove(LOG_FILE).
SyncRemove ==
  /\ pc = "remove"
  /\ LOG_FILE' = NoFile
  /\ pc' = "rename"
  /\ UNCHANGED <<variant, client, twins, timer, faults, online, now, currentMenuState, fingerprintCache>>
  /\ UNCHANGED <<sensor, roster, tempLogFile, drainVars, historyVars>>

\* SD.rename(tempLogFile, LOG_FILE).
SyncRename ==
  /\ pc = "rename"
  /\ LOG_FILE' = tempLogFile
  /\ tempLogFile' = NoFile
  /\ pc' = "return"
  /\ UNCHANGED <<variant, client, twins, timer, faults, online, now, currentMenuState, fingerprintCache>>
  /\ UNCHANGED <<sensor, roster, drainVars, historyVars>>

\* The summary is printed and shown, and the function returns: its counters
\* are gone.
SyncReturn ==
  /\ pc = "return"
  /\ pc' = "idle"
  /\ syncedCount' = 0
  /\ failedCount' = 0
  /\ pass' = NoPass
  /\ UNCHANGED <<variant, client, twins, timer, faults, online, now, currentMenuState, fingerprintCache>>
  /\ UNCHANGED <<sensor, roster, sdVars, unread>>
  /\ UNCHANGED <<events, wire, served, acked, allAccepted, wiped, call>>

\* A test of the timer that is always passed.
TimerAlwaysOut(t) == TRUE

\* loop()'s test of the timer: millis() - lastSyncAttempt > 300000, in
\* unsigned arithmetic.
TimerRanOut(t) == (t.millis - t.lastSyncAttempt) % ClockModulus > SYNC_INTERVAL

\* loop(): the periodic drain, started only when WiFi is up and more than
\* 300000 ms have passed since lastSyncAttempt, which is then set to millis().
\* Where time is not tracked the timer may have run out at any idle point.
\* WiFi may drop before syncOfflineLogs looks again.
PeriodicSync ==
  /\ LoopRuns
  /\ online
  /\ timer.tracked => TimerRanOut(timer)
  /\ timer' = IF timer.tracked
              THEN [timer EXCEPT !.lastSyncAttempt = timer.millis, !.elapsed = 0]
              ELSE timer
  /\ \E stillOnline \in BOOLEAN :
       /\ online' = stillOnline
       /\ SyncOfflineLogs(stillOnline)
  /\ UNCHANGED <<variant, client, twins, now, currentMenuState, fingerprintCache>>
  /\ UNCHANGED <<sensor, roster, LOG_FILE>>
  /\ UNCHANGED <<events, wire, served, acked, allAccepted, wiped, call>>

(***************************************************************************)
(* Roster fetch: syncSensorWithServer, syncAndDisplayServerData            *)
(***************************************************************************)
\* What GET /api/SensorData can come to: the status, and whether the body
\* parses as JSON.  The body lists the server's roster.
RosterFetches == [code : {200, 500}, parsed : BOOLEAN]

\* syncSensorWithServer: the ids marked in serverHasID[128].
ServerHasID(fetch) ==
  IF fetch.code = HTTP_CODE_OK /\ fetch.parsed
  THEN {i \in DOMAIN roster : i >= 0 /\ i < CacheSize}
  ELSE {}

\* A fetch that empties the cache before it looks at the answer.
CacheEmptiedFirst(cache, fetch) ==
  [i \in DOMAIN cache |-> IF i \in ServerHasID(fetch) THEN roster[i] ELSE <<>>]

\* The cache after the loop over the fetched roster entries.
CacheAfterFetch(cache, fetch) ==
  [i \in DOMAIN cache |-> IF i \in ServerHasID(fetch) THEN roster[i] ELSE cache[i]]

\* Whether a command to the sensor (deleteModel, emptyDatabase) can fail.
SensorOutcomes == IF faults.sensor THEN BOOLEAN ELSE {TRUE}

\* A loop that deletes nothing.
OrphansKept(templates, fetch) == {templates}

\* The templates left by the loop over the sensor's 128 slots: a template whose
\* id is not marked is deleted, unless the sensor fails to load or delete it.
AfterOrphanLoop(templates, fetch) ==
  { {i \in templates : i \in ServerHasID(fetch)} \cup undeleted :
      undeleted \in IF faults.sensor
                    THEN SUBSET {i \in templates : i \notin ServerHasID(fetch)}
                    ELSE {{}} }

\* What a roster fetch leaves for the properties: whether a request was made,
\* whether it brought a roster, and the cache and the sensor as they were.
Fetched(op, asked, fetch) ==
  [ op |-> op, asked |-> asked,
    ok |-> (asked /\ fetch.code = HTTP_CODE_OK /\ fetch.parsed),
    cache |-> fingerprintCache, sensor |-> sensor ]

\* syncSensorWithServer, called with WiFi up.
SyncSensorWithServer(fetch) ==
  /\ fingerprintCache' = CacheAfterFetch(fingerprintCache, fetch)
  /\ sensor' \in AfterOrphanLoop(sensor, fetch)
  /\ call' = <<Fetched("sync", TRUE, fetch)>>

(***************************************************************************)
(* setup                                                                   *)
(***************************************************************************)
\* setup(), up to its call of syncOfflineLogs: the sensor check (a failure
\* halts the device for good), the WiFi connection, and with WiFi up the
\* roster sync.  Without WiFi setup ends here.
Setup ==
  /\ pc = "boot"
  /\ \E sensorFound \in BOOLEAN, connected \in BOOLEAN, fetch \in RosterFetches :
       IF ~sensorFound
       THEN /\ pc' = "halted"
            /\ UNCHANGED <<client, online, fingerprintCache, sensor, call>>
       ELSE /\ online' = connected
            /\ IF connected
               THEN /\ client' = SetInsecure(client)
                    /\ SyncSensorWithServer(fetch)
                    /\ pc' = "synced"
               ELSE /\ pc' = "idle"
                    /\ UNCHANGED <<client, fingerprintCache, sensor, call>>
  /\ UNCHANGED <<variant, twins, timer, faults, now, currentMenuState, roster, sdVars>>
  /\ UNCHANGED <<drainVars, events, wire, served, acked, allAccepted, wiped, pass>>

\* The extended sketch's WiFi setup button, held for three seconds:
\* startWifiManagerPortal.  When the portal ends with WiFi configured it syncs
\* the roster and then drains, as setup does.
StartWifiManagerPortal ==
  /\ LoopRuns
  /\ variant = "extended"
  /\ \E configured \in BOOLEAN, fetch \in RosterFetches :
       IF configured
       THEN /\ online' = TRUE
            /\ SyncSensorWithServer(fetch)
            /\ pc' = "synced"
       ELSE UNCHANGED <<pc, online, fingerprintCache, sensor, call>>
  /\ UNCHANGED <<variant, client, twins, timer, faults, now, currentMenuState, roster, sdVars>>
  /\ UNCHANGED <<drainVars, events, wire, served, acked, allAccepted, wiped, pass>>

\* setup() and startWifiManagerPortal, after the roster sync: syncOfflineLogs.
SetupDrain ==
  /\ pc = "synced"
  /\ SyncOfflineLogs(online)
  /\ call' = <<>>
  /\ UNCHANGED <<variant, client, twins, timer, online, now, currentMenuState, fingerprintCache>>
  /\ UNCHANGED <<sensor, roster, LOG_FILE>>
  /\ UNCHANGED <<events, wire, served, acked, allAccepted, wiped>>

(***************************************************************************)
(* enrollNewFingerprint                                                    *)
(***************************************************************************)
\* String::toInt: an optional sign and the digits that follow; 0 without digits.
ToInt(s) ==
  IF SkipSpace(s) # <<>> /\ Head(SkipSpace(s)) = "-"
  THEN 0 - DigitsValue(Tail(SkipSpace(s)), 0)
  ELSE DigitsValue(SkipSpace(s), 0)

\* What GET /api/SensorData/generate-id can come to: the status and the body,
\* an integer: the free identifier, one past the last slot, or -1.
NextIdReplies ==
  [ code : {200, 500},
    body : {FormatUInt(FreeId), FormatUInt(CacheSize), <<"-", "1">>} ]

\* getNextAvailableIDFromServer.
GetNextAvailableIDFromServer(isOnline, reply) ==
  IF ~isOnline THEN 0 - 1
  ELSE IF reply.code = HTTP_CODE_OK THEN ToInt(reply.body)
  ELSE 0 - 1

\* A test of the identifier that lets 128 through.
UsableIdInclusive(newId) == ~(newId < 0 \/ newId > CacheSize)

\* enrollNewFingerprint's test of the identifier.
UsableId(newId) == ~(newId < 0 \/ newId >= CacheSize)

\* How far the capture gets: the step that fails (getFingerprintImage(1),
\* getFingerprintImage(2), createModel, storeModel), or "stored".
Captures == {"image1", "image2", "createModel", "storeModel", "stored"}

\* An enrollment that goes on although storeModel reported an error.
CapturedUnlessCreateFails(capture) == capture \in {"storeModel", "stored"}

\* enrollNewFingerprint's three tests: getFingerprintImage(1),
\* getFingerprintImage(2) and createAndStoreModel all gave FINGERPRINT_OK.
Captured(capture) == capture = "stored"

\* The characters that arrive on the serial port within the 30 seconds:
\* nothing, a line end alone, a name and its line end, a name never ended,
\* and a name after an empty line with more typed behind it.
TypedNames ==
  { <<>>, <<"\n">>, <<"C", "a", "\n">>, <<"C", "a">>, <<"\r", "C", "\n", "a">> }

LineEnds == {"\n", "\r"}

\* getFingerNameFromSerial's loop: characters are added to name, a line end
\* breaks the loop once name is not empty, and the loop ends with the window.
RECURSIVE ReadName(_, _)
ReadName(typed, name) ==
  IF typed = <<>> THEN name
  ELSE IF Head(typed) \in LineEnds
  THEN IF name # <<>> THEN name ELSE ReadName(Tail(typed), name)
  ELSE ReadName(Tail(typed), Append(name, Head(typed)))

\* Whether the loop was left by a line end, before the window was over.
RECURSIVE NameEntered(_, _)
NameEntered(typed, name) ==
  /\ typed # <<>>
  /\ IF Head(typed) \in LineEnds
     THEN name # <<>> \/ NameEntered(Tail(typed), name)
     ELSE NameEntered(Tail(typed), Append(name, Head(typed)))

\* "User_" + String(id).
DefaultName(id) == <<"U", "s", "e", "r", "_">> \o FormatUInt(id)

\* A function that falls back on the default whenever no line end came.
NameOrDefault(typed, id) ==
  IF NameEntered(typed, <<>>) THEN ReadName(typed, <<>>) ELSE DefaultName(id)

\* getFingerNameFromSerial: what was read, or "User_<id>" when that is empty.
GetFingerNameFromSerial(typed, id) ==
  IF ReadName(typed, <<>>) = <<>> THEN DefaultName(id) ELSE ReadName(typed, <<>>)

\* A registration that takes any answer for success.
SendFingerprintUnchecked(isOnline, code) == isOnline

\* A registration that takes 200 alone for success.
SendFingerprintOkOnly(isOnline, code) == isOnline /\ code = HTTP_CODE_OK

\* sendFingerprintToServer: false without a request when WiFi is down.
SendFingerprintToServer(isOnline, code) ==
  isOnline /\ (code = HTTP_CODE_OK \/ code = HTTP_CODE_CREATED)

\* The server's roster after it has processed a registration of id as name.
Registered(id, name) ==
  [i \in DOMAIN roster \cup {id} |-> IF i = id THEN name ELSE roster[i]]

\* What an enrollment leaves for the properties: its inputs, whether a
\* template was stored and a registration was requested and acknowledged,
\* and the cache and the sensor as they were.
Enrolled(idReply, capture, typed, name, stillOnline, reply) ==
  [ op |-> "enroll", online |-> online, idReply |-> idReply, typed |-> typed,
    capture |-> capture,
    id |-> GetNextAvailableIDFromServer(online, idReply),
    stored |-> (/\ online
                /\ UsableId(GetNextAvailableIDFromServer(online, idReply))
                /\ capture = "stored"),
    name |-> name, asked |-> stillOnline,
    acknowledged |-> (stillOnline /\ Acknowledges(reply)),
    cache |-> fingerprintCache, sensor |-> sensor, roster |-> roster ]

\* The part of enrollNewFingerprint after createAndStoreModel has stored the
\* template at id: the name, the registration, and the cache entry or the
\* rollback.
Publish(id, name, stillOnline, reply, deleted) ==
  /\ online' = stillOnline
  /\ roster' = IF stillOnline /\ reply.stored THEN Registered(id, name) ELSE roster
  /\ IF SendFingerprintToServer(stillOnline, reply.code)
     THEN /\ fingerprintCache' = [fingerprintCache EXCEPT ![id] = name]
          /\ sensor' = sensor \cup {id}
     ELSE /\ sensor' = IF deleted THEN sensor \ {id} ELSE sensor \cup {id}
          /\ UNCHANGED fingerprintCache

\* handleButton: a short press in the main menu: runMainMenuAction calls
\* enrollNewFingerprint.
EnrollNewFingerprint ==
  /\ LoopRuns
  /\ currentMenuState = "MAIN_MENU"
  /\ \E idReply \in NextIdReplies, capture \in Captures, typed \in TypedNames,
        stillOnline \in BOOLEAN, reply \in Replies, deleted \in SensorOutcomes :
       \E newId \in {GetNextAvailableIDFromServer(online, idReply)} :
         IF ~online \/ ~UsableId(newId) \/ ~Captured(capture)
         THEN /\ call' = <<Enrolled(idReply, capture, <<>>, <<>>, FALSE, reply)>>
              /\ UNCHANGED <<online, roster, fingerprintCache, sensor>>
         ELSE /\ call' = <<Enrolled(idReply, capture, typed,
                                    GetFingerNameFromSerial(typed, newId),
                                    stillOnline, reply)>>
              /\ Publish(newId, GetFingerNameFromSerial(typed, newId),
                         stillOnline, reply, deleted)
  /\ pc' = "enrolled"
  /\ UNCHANGED <<variant, client, twins, timer, faults, now, currentMenuState, sdVars, drainVars>>
  /\ UNCHANGED <<events, wire, served, acked, allAccepted, wiped, pass>>

\* enrollNewFingerprint returns; runMainMenuAction restores the prompt.
EnrollReturn ==
  /\ pc = "enrolled"
  /\ pc' = "idle"
  /\ call' = <<>>
  /\ UNCHANGED <<variant, client, twins, timer, faults, online, now, currentMenuState, fingerprintCache>>
  /\ UNCHANGED <<sensor, roster, sdVars, drainVars>>
  /\ UNCHANGED <<events, wire, served, acked, allAccepted, wiped, pass>>

(***************************************************************************)
(* enrollNewFingerprint, wait by wait                                      *)
(***************************************************************************)
\* The clock TickMs later: millis() wraps round, the time since the last
\* periodic attempt does not (it is followed for two turns of the clock).
Later(t) ==
  [t EXCEPT !.millis = (@ + TickMs) % ClockModulus,
            !.elapsed = IF @ + TickMs > 2 * ClockModulus THEN @ ELSE @ + TickMs]

\* The place in enrollNewFingerprint: in getFingerprintImage(1), in the
\* extended sketch's wait for the finger to be lifted, in
\* getFingerprintImage(2), before createAndStoreModel, and in
\* getFingerNameFromSerial.
EnrollWaits == {"place1", "lift", "place2", "store", "naming"}

\* The locals of an enrollment under way, with the sensor as it was found.
Enrolling(idReply, id) ==
  [ op |-> "enrolling", idReply |-> idReply, id |-> id, startTime |-> 0,
    typed |-> <<>>, sensor |-> sensor ]

\* No answer: what stands for the registration's reply where none was asked.
NoReply == [code |-> 0, stored |-> FALSE]

\* enrollNewFingerprint returns from capture without a stored template.
EnrollGivesUp(capture) ==
  /\ pc' = "enrolled"
  /\ call' = <<[Enrolled(call[1].idReply, capture, <<>>, <<>>, FALSE, NoReply)
                 EXCEPT !.online = TRUE]>>

\* handleButton: a short press in the main menu: enrollNewFingerprint up to
\* its first wait.
EnrollBegin ==
  /\ LoopRuns
  /\ currentMenuState = "MAIN_MENU"
  /\ \E idReply \in NextIdReplies :
       \E newId \in {GetNextAvailableIDFromServer(online, idReply)} :
         IF ~online \/ ~UsableId(newId)
         THEN /\ pc' = "enrolled"
              /\ call' = <<Enrolled(idReply, "image1", <<>>, <<>>, FALSE, NoReply)>>
         ELSE /\ pc' = "place1"
              /\ call' = <<Enrolling(idReply, newId)>>
  /\ UNCHANGED <<variant, client, twins, timer, faults, online, now, currentMenuState, fingerprintCache>>
  /\ UNCHANGED <<sensor, roster, sdVars, drainVars>>
  /\ UNCHANGED <<events, wire, served, acked, allAccepted, wiped, pass>>

\* What finger.getImage() answers.
GetImageResults == {"FINGERPRINT_OK", "FINGERPRINT_NOFINGER", "FINGERPRINT_IMAGEFAIL"}

\* getFingerprintImage: one pass of its loop, and image2Tz when the loop is
\* left with an image.  Without a finger the loop goes round again.
GetFingerprintImage ==
  /\ pc \in {"place1", "place2"}
  /\ \E p \in GetImageResults, converted \in BOOLEAN :
       IF p = "FINGERPRINT_NOFINGER"
       THEN /\ timer' = Later(timer)
            /\ UNCHANGED <<pc, call>>
       ELSE /\ UNCHANGED timer
            /\ IF p = "FINGERPRINT_OK" /\ converted
               THEN /\ pc' = IF pc = "place2" THEN "store"
                             ELSE IF variant = "extended" THEN "lift" ELSE "place2"
                    /\ UNCHANGED call
               ELSE EnrollGivesUp(IF pc = "place1" THEN "image1" ELSE "image2")
  /\ UNCHANGED <<variant, client, twins, faults, online, now, currentMenuState, fingerprintCache>>
  /\ UNCHANGED <<sensor, roster, sdVars, drainVars>>
  /\ UNCHANGED <<events, wire, served, acked, allAccepted, wiped, pass>>

\* The extended sketch between the captures:
\* while (finger.getImage() != FINGERPRINT_NOFINGER) delay(10).
AwaitLift ==
  /\ pc = "lift"
  /\ \E p \in GetImageResults :
       IF p = "FINGERPRINT_NOFINGER"
       THEN /\ pc' = "place2"
            /\ UNCHANGED timer
       ELSE /\ timer' = Later(timer)
            /\ UNCHANGED pc
  /\ UNCHANGED <<variant, client, twins, faults, online, now, currentMenuState, fingerprintCache>>
  /\ UNCHANGED <<sensor, roster, sdVars, drainVars, historyVars>>

\* createAndStoreModel, and the start of getFingerNameFromSerial's window.
CreateAndStoreModel ==
  /\ pc = "store"
  /\ \E created \in BOOLEAN, stored \in BOOLEAN :
       IF created /\ stored
       THEN /\ sensor' = sensor \cup {call[1].id}
            /\ call' = <<[call[1] EXCEPT !.startTime = timer.millis]>>
            /\ pc' = "naming"
       ELSE /\ EnrollGivesUp(IF created THEN "storeModel" ELSE "createModel")
            /\ UNCHANGED sensor
  /\ UNCHANGED <<variant, client, twins, timer, faults, online, now, currentMenuState, fingerprintCache>>
  /\ UNCHANGED <<roster, sdVars, drainVars>>
  /\ UNCHANGED <<events, wire, served, acked, allAccepted, wiped, pass>>

\* The naming window of getFingerNameFromSerial, in ms.
NAME_WINDOW == 30000

\* A window that never closes.
WindowAlwaysOpen(t, startTime) == TRUE

\* getFingerNameFromSerial's test: millis() - startTime < 30000.
WindowOpen(t, startTime) == (t.millis - startTime) % ClockModulus < NAME_WINDOW

\* getFingerNameFromSerial from its loop on, and the rest of
\* enrollNewFingerprint.  While the window is open either a name and its
\* line end arrive or time goes by; what was typed by then stays in name.
AwaitName ==
  /\ pc = "naming"
  /\ \E typed \in TypedNames, stillOnline \in BOOLEAN, reply \in Replies,
        deleted \in SensorOutcomes :
       IF WindowOpen(timer, call[1].startTime) /\ ~NameEntered(typed, <<>>)
       THEN /\ timer' = Later(timer)
            /\ call' = <<[call[1] EXCEPT !.typed = typed]>>
            /\ UNCHANGED <<pc, online, roster, fingerprintCache, sensor>>
       ELSE \E read \in {IF WindowOpen(timer, call[1].startTime)
                          THEN typed ELSE call[1].typed} :
              /\ UNCHANGED timer
              /\ pc' = "enrolled"
              /\ call' = <<[Enrolled(call[1].idReply, "stored", read,
                                     GetFingerNameFromSerial(read, call[1].id),
                                     stillOnline, reply)
                             EXCEPT !.online = TRUE, !.stored = TRUE,
                                    !.sensor = call[1].sensor]>>
              /\ Publish(call[1].id, GetFingerNameFromSerial(read, call[1].id),
                         stillOnline, reply, deleted)
  /\ UNCHANGED <<variant, client, twins, faults, now, currentMenuState, sdVars, drainVars>>
  /\ UNCHANGED <<events, wire, served, acked, allAccepted, wiped, pass>>

(***************************************************************************)
(* Button and menu                                                         *)
(***************************************************************************)
\* A handleButton whose ten-second hold does not look at the menu.
VeryLongPressAnywhere(menu) == TRUE

\* handleButton: a hold of ten seconds calls attemptToClearAllData in the
\* options menu only.
VeryLongPress(menu) == menu = "OPTIONS_MENU"

\* handleButton: a hold of five seconds in the main menu: showOptionsMenu.
LongPress ==
  /\ LoopRuns
  /\ currentMenuState = "MAIN_MENU"
  /\ currentMenuState' = "OPTIONS_MENU"
  /\ UNCHANGED <<variant, client, twins, timer, faults, pc, online, now, fingerprintCache, sensor, roster>>
  /\ UNCHANGED <<sdVars, drainVars, historyVars>>

\* handleButton: a short press in the options menu: runOptionsMenuAction
\* calls syncAndDisplayServerData, which asks nothing without WiFi.
ShortPressOptions ==
  /\ LoopRuns
  /\ currentMenuState = "OPTIONS_MENU"
  /\ \E fetch \in RosterFetches :
       /\ fingerprintCache' =
            IF online THEN CacheAfterFetch(fingerprintCache, fetch) ELSE fingerprintCache
       /\ call' = <<Fetched("show", online, fetch)>>
  /\ pc' = "shown"
  /\ UNCHANGED <<variant, client, twins, timer, faults, online, now, currentMenuState, sensor, roster>>
  /\ UNCHANGED <<sdVars, drainVars>>
  /\ UNCHANGED <<events, wire, served, acked, allAccepted, wiped, pass>>

\* runOptionsMenuAction, after syncAndDisplayServerData: back to the main menu.
OptionsReturn ==
  /\ pc = "shown"
  /\ pc' = "idle"
  /\ currentMenuState' = "MAIN_MENU"
  /\ call' = <<>>
  /\ UNCHANGED <<variant, client, twins, timer, faults, online, now, fingerprintCache, sensor, roster>>
  /\ UNCHANGED <<sdVars, drainVars>>
  /\ UNCHANGED <<events, wire, served, acked, allAccepted, wiped, pass>>

\* A test of the clear request's status that takes every answer of the server.
ServerClearedAnyAnswer(code) == code > 0

\* attemptToClearAllData's test of the clear request's status.
ServerCleared(code) == code = HTTP_CODE_OK

\* attemptToClearAllData, reached by a hold of ten seconds in the options
\* menu.  Without WiFi it returns at once.  With the password confirmed and
\* the server's 200, it empties the sensor (the result of emptyDatabase only
\* changes the message), clears the cache and removes the log file.
ClearAllData(confirmed, reply, emptied) ==
  IF ~online
  THEN UNCHANGED <<currentMenuState, fingerprintCache, sensor, roster, LOG_FILE, wiped>>
  ELSE IF confirmed /\ ServerCleared(reply.code)
  THEN /\ roster' = [i \in {} |-> <<>>]
       /\ sensor' = IF emptied THEN {} ELSE sensor
       /\ fingerprintCache' = [i \in DOMAIN fingerprintCache |-> <<>>]
       /\ LOG_FILE' = NoFile
       /\ wiped' = wiped \cup Range(RecordsOf(variant, LOG_FILE.data))
       /\ currentMenuState' = "MAIN_MENU"
  ELSE /\ currentMenuState' = "MAIN_MENU"
       /\ roster' = IF confirmed /\ reply.stored THEN [i \in {} |-> <<>>] ELSE roster
       /\ UNCHANGED <<fingerprintCache, sensor, LOG_FILE, wiped>>

\* What POST /api/SensorData/clear can come to; -11 is a read timeout after
\* the server has cleared its roster.
ClearReplies ==
  { [code |-> 200, stored |-> TRUE], [code |-> 500, stored |-> FALSE],
    [code |-> -11, stored |-> TRUE] }

\* The characters that arrive on the serial port within the 30 seconds of
\* confirmAdminPassword: nothing, the password and a line end, the password
\* never ended, another word, and the password after an empty line.
Passwords ==
  { <<>>, <<"a", "d", "m", "i", "n", "\n">>, <<"a", "d", "m", "i", "n">>,
    <<"a", "d", "m", "\r">>, <<"\n", "a", "d", "m", "i", "n", "\n">> }

\* Whether a line end arrives at all.
LineEnded(typed) == \E i \in 1..Len(typed) : typed[i] \in LineEnds

\* A test that takes the password without its line end, at the timeout.
RECURSIVE ConfirmsUnended(_, _)
ConfirmsUnended(typed, input) ==
  IF typed = <<>> THEN input = <<"a", "d", "m", "i", "n">>
  ELSE IF Head(typed) \in LineEnds THEN input = <<"a", "d", "m", "i", "n">>
  ELSE ConfirmsUnended(Tail(typed), Append(input, Head(typed)))

\* confirmAdminPassword's loop: characters are added to input, the first line
\* end decides (input == "admin"), and the end of the window is a refusal.
RECURSIVE ConfirmAdminPassword(_, _)
ConfirmAdminPassword(typed, input) ==
  IF typed = <<>> THEN FALSE
  ELSE IF Head(typed) \in LineEnds THEN input = <<"a", "d", "m", "i", "n">>
  ELSE ConfirmAdminPassword(Tail(typed), Append(input, Head(typed)))

\* What attemptToClearAllData leaves for the properties: what it read from
\* the serial port (nothing without WiFi), whether the clear request was
\* sent and its status (0 when it was not), and the state it found.
Cleared(typed, reply) ==
  [ op |-> "clear", online |-> online,
    typed |-> IF online THEN typed ELSE <<>>,
    asked |-> (online /\ ConfirmAdminPassword(typed, <<>>)),
    code |-> IF online /\ ConfirmAdminPassword(typed, <<>>) THEN reply.code ELSE 0,
    cache |-> fingerprintCache, sensor |-> sensor, roster |-> roster,
    log |-> LOG_FILE ]

AttemptToClearAllData ==
  /\ LoopRuns
  /\ VeryLongPress(currentMenuState)
  /\ \E typed \in Passwords, reply \in ClearReplies, emptied \in SensorOutcomes :
       /\ ClearAllData(ConfirmAdminPassword(typed, <<>>), reply, emptied)
       /\ call' = <<Cleared(typed, reply)>>
  /\ pc' = "cleared"
  /\ UNCHANGED <<variant, client, twins, timer, faults, online, now, tempLogFile, drainVars>>
  /\ UNCHANGED <<events, wire, served, acked, allAccepted, pass>>

\* attemptToClearAllData returns to handleButton.
ClearReturn ==
  /\ pc = "cleared"
  /\ pc' = "idle"
  /\ call' = <<>>
  /\ UNCHANGED <<variant, client, twins, timer, faults, online, now, currentMenuState, fingerprintCache>>
  /\ UNCHANGED <<sensor, roster, sdVars, drainVars>>
  /\ UNCHANGED <<events, wire, served, acked, allAccepted, wiped, pass>>

\* attemptToClearAllData up to confirmAdminPassword's loop.
ClearBegin ==
  /\ LoopRuns
  /\ VeryLongPress(currentMenuState)
  /\ IF ~online
     THEN /\ pc' = "cleared"
          /\ call' = <<Cleared(<<>>, NoReply)>>
     ELSE /\ pc' = "password"
          /\ call' = <<[op |-> "clearing", startTime |-> timer.millis, typed |-> <<>>]>>
  /\ UNCHANGED <<variant, client, twins, timer, faults, online, now, currentMenuState, fingerprintCache>>
  /\ UNCHANGED <<sensor, roster, sdVars, drainVars>>
  /\ UNCHANGED <<events, wire, served, acked, allAccepted, wiped, pass>>

\* confirmAdminPassword from its loop on (the same 30 seconds as for a
\* name), and the rest of attemptToClearAllData.  While the window is open
\* either a line end arrives or time goes by.
AwaitPassword ==
  /\ pc = "password"
  /\ \E typed \in Passwords, reply \in ClearReplies, emptied \in SensorOutcomes :
       IF WindowOpen(timer, call[1].startTime) /\ ~LineEnded(typed)
       THEN /\ timer' = Later(timer)
            /\ call' = <<[call[1] EXCEPT !.typed = typed]>>
            /\ UNCHANGED <<pc, currentMenuState, fingerprintCache, sensor, roster>>
            /\ UNCHANGED <<LOG_FILE, wiped>>
       ELSE \E read \in {IF WindowOpen(timer, call[1].startTime)
                          THEN typed ELSE call[1].typed} :
              /\ UNCHANGED timer
              /\ pc' = "cleared"
              /\ call' = <<Cleared(read, reply)>>
              /\ ClearAllData(ConfirmAdminPassword(read, <<>>), reply, emptied)
  /\ UNCHANGED <<variant, client, twins, faults, online, now, tempLogFile, drainVars>>
  /\ UNCHANGED <<events, wire, served, acked, allAccepted, pass>>

(***************************************************************************)
(* Specifications                                                          *)
(***************************************************************************)
Next ==
  \/ Setup
  \/ SetupDrain
  \/ ScanForFingerprint
  \/ ScanReturn
  \/ PeriodicSync
  \/ SyncLine
  \/ SyncClose
  \/ SyncRemove
  \/ SyncRename
  \/ SyncReturn
  \/ WiFiChange
  \/ LongPress
  \/ ShortPressOptions
  \/ OptionsReturn
  \/ AttemptToClearAllData
  \/ ClearReturn

\* The device with sound hardware: WiFi, server and clock misbehave.
Spec == Init /\ [][Next]_vars

\* Power is lost and comes back: RAM is gone (the menu state, the cache, the
\* locals of a drain under way), the SD card, the sensor and the
\* battery-backed RTC keep what they hold, and setup() runs again.
PowerLoss ==
  /\ faults.power
  /\ pc # "boot"
  /\ pc' = "boot"
  /\ online' = FALSE
  /\ currentMenuState' = "MAIN_MENU"
  /\ fingerprintCache' = EmptyCache
  /\ unread' = <<>>
  /\ syncedCount' = 0
  /\ failedCount' = 0
  /\ pass' = NoPass
  /\ call' = <<>>
  /\ timer' = [timer EXCEPT !.millis = 0, !.lastSyncAttempt = 0, !.elapsed = 0]
  /\ client' = NewClient(client.tracked)
  /\ UNCHANGED <<variant, twins, faults, now, sensor, roster, sdVars>>
  /\ UNCHANGED <<events, wire, served, acked, allAccepted, wiped>>

CrashNext ==
  \/ Next
  \/ PowerLoss

\* The device with a power supply that can fail at any point.
CrashSpec == InitWith(TRUE, 0) /\ [][CrashNext]_vars

\* The device with an SD card that can fail: SD.open can fail and printf can
\* write less than the whole line.
StorageSpec == InitWith(FALSE, MaxStorageFaults) /\ [][Next]_vars

\* The device with no finger enrolled for attendance put on the sensor: the
\* button's handlers (enrollment, roster display, clear-all) and setup, which
\* runs again whenever power has been lost.
RosterNext ==
  \/ Setup
  \/ SetupDrain
  \/ EnrollNewFingerprint
  \/ EnrollReturn
  \/ LongPress
  \/ ShortPressOptions
  \/ OptionsReturn
  \/ AttemptToClearAllData
  \/ ClearReturn
  \/ StartWifiManagerPortal
  \/ WiFiChange
  \/ PowerLoss

RosterSpec ==
  /\ InitFaulty([power |-> TRUE, storage |-> 0, sensor |-> FALSE])
  /\ [][RosterNext]_vars

\* The same with a fingerprint sensor whose commands can fail.
SensorFaultSpec ==
  /\ InitFaulty([power |-> TRUE, storage |-> 0, sensor |-> TRUE])
  /\ [][RosterNext]_vars

\* Time goes by, other than in the wait loops of an enrollment and in the
\* wait for the password, which test the clock at every pass.
Tick ==
  /\ timer.tracked
  /\ pc \notin EnrollWaits \cup {"password"}
  /\ timer' = Later(timer)
  /\ UNCHANGED <<variant, client, twins, faults, deviceVars, sdVars, drainVars, historyVars>>

\* A record saved to the SD card before the device was last switched off.
LeftOver(v) ==
  Appended(NoFile,
           FormatLine(v, 3, IF v = "basic" THEN <<>> ELSE <<"Q", "Q", "=", "=">>, T0 - 1))

\* The device with its clock tracked, switched on (again and again) with a
\* record waiting on the SD card: no finger, no press of the main button.
TimerNext ==
  \/ Setup
  \/ SetupDrain
  \/ PeriodicSync
  \/ SyncLine
  \/ SyncClose
  \/ SyncRemove
  \/ SyncRename
  \/ SyncReturn
  \/ StartWifiManagerPortal
  \/ WiFiChange
  \/ Tick
  \/ PowerLoss

TimerSpec ==
  /\ \E v \in Variants :
       InitState([power |-> TRUE, storage |-> 0, sensor |-> FALSE],
                 Clock(TRUE), LeftOver(v))
  /\ [][TimerNext]_vars

\* The device with its clock tracked and the enrollment taken wait by wait:
\* no scan, no drain, no options menu.
WaitNext ==
  \/ Setup
  \/ SetupDrain
  \/ EnrollBegin
  \/ GetFingerprintImage
  \/ AwaitLift
  \/ CreateAndStoreModel
  \/ AwaitName
  \/ EnrollReturn
  \/ WiFiChange
  \/ Tick

\* A pass of a wait loop of an enrollment under way, or the step after it.
EnrollStep ==
  \/ GetFingerprintImage
  \/ AwaitLift
  \/ CreateAndStoreModel
  \/ AwaitName
  \/ EnrollReturn

\* The loops of enrollNewFingerprint keep running: nothing else runs on the
\* device while it waits.
WaitSpec ==
  /\ InitState([power |-> FALSE, storage |-> 0, sensor |-> FALSE], Clock(TRUE), NoFile)
  /\ [][WaitNext]_vars
  /\ WF_vars(EnrollStep)

\* The device with its clock tracked and attemptToClearAllData taken with
\* its wait for the password, while WiFi stays as setup found it.
GateNext ==
  \/ Setup
  \/ SetupDrain
  \/ SyncLine
  \/ SyncClose
  \/ SyncRemove
  \/ SyncRename
  \/ SyncReturn
  \/ LongPress
  \/ ShortPressOptions
  \/ OptionsReturn
  \/ ClearBegin
  \/ AwaitPassword
  \/ ClearReturn
  \/ Tick

\* confirmAdminPassword's loop keeps running, and the handler returns.
GateSpec ==
  /\ \E v \in Variants :
       InitState([power |-> FALSE, storage |-> 0, sensor |-> FALSE],
                 Clock(TRUE), LeftOver(v))
  /\ [][GateNext]_vars
  /\ WF_vars(AwaitPassword \/ ClearReturn)

\* Queue files with a line that lacks its separators: first, between two
\* records, and last.
CorruptLogs(v) ==
  LET tpl == IF v = "basic" THEN <<>> ELSE <<"Q", "Q", "=", "=">>
      first == FormatLine(v, 3, tpl, T0 - 1)
      second == FormatLine(v, 7, tpl, T0)
      torn == IF v = "basic" THEN <<"7", NL>> ELSE <<"7", COMMA, "9", NL>>
  IN { Appended(NoFile, torn \o second),
       Appended(NoFile, first \o torn \o second),
       Appended(NoFile, first \o torn) }

\* The device and its drains alone: no finger, no button.
DrainNext ==
  \/ Setup
  \/ SetupDrain
  \/ PeriodicSync
  \/ SyncLine
  \/ SyncClose
  \/ SyncRemove
  \/ SyncRename
  \/ SyncReturn
  \/ WiFiChange

\* The device switched on with an SD card whose queue file has a damaged
\* line.
CorruptSpec ==
  /\ \E v \in Variants : \E log \in CorruptLogs(v) :
       InitState([power |-> FALSE, storage |-> 0, sensor |-> FALSE], Clock(FALSE), log)
  /\ [][DrainNext]_vars

\* A step of a handler that has started: setup, a scan, a drain.
HandlerStep ==
  \/ Setup
  \/ SetupDrain
  \/ OptionsReturn
  \/ ClearReturn
  \/ ScanReturn
  \/ SyncLine
  \/ SyncClose
  \/ SyncRemove
  \/ SyncRename
  \/ SyncReturn

\* The device with sound hardware and a fair schedule: a handler that has
\* started runs to its end, and loop() keeps coming round to its test of the
\* drain timer, so that the periodic drain starts again and again if WiFi
\* is up again and again when it is tested.
LiveSpec ==
  /\ Init
  /\ [][Next]_vars
  /\ WF_vars(HandlerStep)
  /\ SF_vars(PeriodicSync)

(***************************************************************************)
(* Properties                                                              *)
(***************************************************************************)
\* The queue: the records a drain would offer for the log file as it is.
Queue == RecordsOf(variant, LOG_FILE.data)

\* The record failed in the drain pass under way.
FailedInPass(r) == r \in pass.failed

\* C1 (no loss): when a drain pass in which every record was sent and
\* acknowledged is over, and the server has acknowledged every request ever
\* sent, the queue is empty and the server has processed exactly once every
\* recorded event (those attemptToClearAllData deleted apart).
C1_NoLoss ==
  (pc = "return" /\ allAccepted /\ pass.failed = {})
    => /\ Queue = <<>>
       /\ \A e \in events \ wiped : e \in DOMAIN served /\ served[e] = 1

\* Two events recorded offline were both delivered by the pass that is over.
C1_Witness ==
  /\ pc = "return"
  /\ allAccepted
  /\ pass.failed = {}
  /\ Len(pass.start) >= 2
  /\ syncedCount = Len(pass.start)
  /\ Range(pass.start) = events

\* C2 (partial-failure drain): when a drain pass is over, the queue holds
\* exactly the records whose transmission failed in the pass, in the order
\* they had in the queue at the start of the pass.
C2_PartialDrain ==
  pc = "return" => Queue = SelectSeq(pass.start, FailedInPass)

\* A pass over two records, one of which failed and one was acknowledged.
C2_Witness ==
  /\ pc = "return"
  /\ Len(pass.start) >= 2
  /\ pass.failed # {}
  /\ pass.failed # Range(pass.start)

\* The records the device holds for delivery: between SD.remove and
\* SD.rename they are in the temporary file.
Pending ==
  IF pc = "rename" THEN RecordsOf(variant, tempLogFile.data) ELSE Queue

\* While the drain loop runs, and until the log file is removed, the lines
\* already acknowledged are still in the log file.
InDrainLoop == pc \in {"read", "remove"}

\* C3 (queue removal), as amended: outside the drain loop, a recorded event
\* is in the queue exactly when the server has not acknowledged it and
\* attemptToClearAllData (online, password confirmed, the server's 200) has
\* not deleted it with the log file.
C3_QueueRemoval ==
  ~InDrainLoop
    => \A e \in events : e \in Range(Pending) <=> (e \notin acked /\ e \notin wiped)

\* C3 as stated: outside the drain loop, a recorded event is in the queue
\* exactly when the server has not acknowledged it, whatever operations have
\* run, attemptToClearAllData included.
C3_Original ==
  ~InDrainLoop => \A e \in events : e \in Range(Pending) <=> e \notin acked

\* The log file has just been removed in a pass that delivered one record
\* and keeps another.
C3_Witness ==
  /\ pc = "rename"
  /\ \E r \in Range(pass.start) : r \in acked /\ r \notin Range(Pending)
  /\ \E r \in Range(pass.start) : r \notin acked /\ r \in Range(Pending)

\* The timestamps of a sequence of records never decrease.
InOrder(q) == \A i, j \in 1..Len(q) : i < j => q[i].ts <= q[j].ts

\* C4 (FIFO delivery): recordAttendance sends a new event to the server only
\* when no earlier record is pending, and the queue, which a drain sends from
\* first line to last, is in order of creation.
C4_Fifo ==
  /\ (pc = "scanned" /\ call[1].clockValid /\ call[1].read /\ call[1].online)
       => RecordsOf(variant, call[1].log.data) = <<>>
  /\ InOrder(Queue)

\* C8 (unset clock): a scan made while the RTC reading is invalid leaves the
\* log file as it was, sends nothing, and records no event.
C8_UnsetClock ==
  (pc = "scanned" /\ call[1].read /\ ~call[1].clockValid)
    => /\ LOG_FILE = call[1].log
       /\ wire = call[1].wire
       /\ Rec(call[1].id, call[1].tpl, call[1].ts) \notin events

\* A finger was matched online, with records in the queue and the clock
\* unset.
C8_Witness ==
  /\ pc = "scanned"
  /\ call[1].read
  /\ ~call[1].clockValid
  /\ call[1].online
  /\ Queue # <<>>

\* C10 (recordAttendance, clock valid): when the device was online and the
\* server answered 200 or 201 the log file is as it was; in every other case
\* the queue is the queue as it was with the new record added at its end.
C10_RecordAttendance ==
  (pc = "scanned" /\ call[1].read /\ call[1].clockValid)
    => IF call[1].acknowledged
       THEN LOG_FILE = call[1].log
       ELSE Queue = Append(RecordsOf(variant, call[1].log.data),
                           Rec(call[1].id, call[1].tpl, call[1].ts))

\* An event recorded online that the server did not acknowledge joined a
\* queue that already held a record.
C10_Witness ==
  /\ pc = "scanned"
  /\ call[1].read
  /\ call[1].clockValid
  /\ call[1].online
  /\ ~call[1].acknowledged
  /\ Len(Queue) >= 2

\* C5 (crash-safe drain): whenever the device is about to run or has just
\* left setup or loop, every recorded event that the server has not
\* acknowledged (and attemptToClearAllData has not deleted) is in the log
\* file, the file the next syncOfflineLogs reads; power may have been lost at
\* any step of a drain.
C5_CrashSafe ==
  pc \in {"boot", "idle"}
    => \A e \in events : (e \notin acked /\ e \notin wiped) => e \in Range(Queue)

\* C6 (no duplication): the server never processes the same attendance
\* record more than once.
C6_NoDuplication == \A r \in DOMAIN served : served[r] = 1

\* C9 (no zero timestamp): no record sent to the server and no record in the
\* queue after a drain has rewritten it carries timestamp 0.
C9_NoZeroTimestamp ==
  /\ \A r \in wire : r.ts # 0
  /\ pc = "return" => \A r \in Range(Queue) : r.ts # 0

\* The user whose records the server accepts in the end; it may refuse the
\* records of the other for ever.
Served(r) == r.id = 3

\* A drain sends a record of that user and the server's acknowledgement
\* arrives.
Delivers ==
  /\ SyncLine
  /\ \E r \in acked' : r \notin acked /\ Served(r)

\* Every recorded event of that user has been acknowledged, or deleted with
\* the log file by attemptToClearAllData.
AllDelivered ==
  \A e \in events : Served(e) => (e \in acked \/ e \in wiped)

C11_MatchRecorded ==
  (pc = "scanned" /\ call[1].clockValid)
    => \/ Rec(call[1].id, call[1].tpl, call[1].ts) \in acked
       \/ Rec(call[1].id, call[1].tpl, call[1].ts) \in Range(Queue)

\* The same for the matches whose template was read (always, in the basic
\* sketch): what is left to go wrong is the SD card.
C11_ReadMatchRecorded ==
  (pc = "scanned" /\ call[1].clockValid /\ call[1].read)
    => \/ Rec(call[1].id, call[1].tpl, call[1].ts) \in acked
       \/ Rec(call[1].id, call[1].tpl, call[1].ts) \in Range(Queue)

\* C12 (enrollment rollback): when enrollNewFingerprint is about to return
\* after it stored a template at identifier X and the registration was not
\* acknowledged (no WiFi, no answer, a status other than 200 and 201), X is
\* not on the sensor and the cache entry of X is what it was.
C12_Rollback ==
  (pc = "enrolled" /\ call[1].stored /\ ~call[1].acknowledged)
    => /\ call[1].id \notin sensor
       /\ fingerprintCache[call[1].id] = call[1].cache[call[1].id]

\* An enrollment whose registration was sent and refused, rolled back.
C12_Witness ==
  /\ pc = "enrolled"
  /\ call[1].stored
  /\ call[1].asked
  /\ ~call[1].acknowledged
  /\ call[1].id \notin sensor
  /\ call[1].sensor # {}

\* C13 (identifier authority): when enrollNewFingerprint is about to return,
\* a template was stored only at the integer a 200 answer to the request for
\* the next free identifier carried, and only if it lies in 0..127; without
\* WiFi, with another status or with an integer outside 0..127 nothing was
\* stored, no registration was requested, and sensor and roster are as before.
C13_IdentifierAuthority ==
  pc = "enrolled"
    => /\ call[1].stored
            => /\ call[1].online
               /\ call[1].idReply.code = 200
               /\ call[1].id = ToInt(call[1].idReply.body)
               /\ call[1].id \in 0..127
       /\ (\/ ~call[1].online
           \/ call[1].idReply.code # 200
           \/ ToInt(call[1].idReply.body) \notin 0..127)
            => /\ ~call[1].stored
               /\ ~call[1].asked
               /\ sensor = call[1].sensor
               /\ roster = call[1].roster

\* An enrollment given 128 by the server with status 200: nothing stored.
C13_Witness ==
  /\ pc = "enrolled"
  /\ call[1].online
  /\ call[1].idReply.code = 200
  /\ ToInt(call[1].idReply.body) = 128
  /\ ~call[1].stored
  /\ sensor = call[1].sensor

\* C14 (sensor within roster): between two passes of loop() every identifier
\* that holds a template on the sensor is in the server's roster.
C14_SensorWithinRoster == pc = "idle" => sensor \subseteq DOMAIN roster

\* The same while every command to the sensor succeeds: a request the server
\* carried out without its answer reaching the device is enough.
C14_SoundSensor == (pc = "idle" /\ ~faults.sensor) => sensor \subseteq DOMAIN roster

\* C15 (orphan reconciliation): when syncSensorWithServer has run with a
\* roster fetched and parsed, the sensor holds the templates it held before
\* whose identifiers the roster lists, and no others.
C15_Orphans ==
  (pc = "synced" /\ call[1].ok)
    => sensor = call[1].sensor \cap DOMAIN roster

\* A sync that deleted some templates and kept others.
C15_Witness ==
  /\ pc = "synced"
  /\ call[1].ok
  /\ sensor # {}
  /\ sensor # call[1].sensor

\* The cache that holds the roster's pairs and nothing else.
RosterPairs ==
  [i \in Slots |-> IF i \in DOMAIN roster THEN roster[i] ELSE <<>>]

\* C16 (wholesale cache replacement): when syncSensorWithServer or
\* syncAndDisplayServerData has fetched and parsed a roster, the cache holds
\* the roster's names and no name for an identifier the roster lacks.
C16_CacheIsRoster ==
  (pc \in {"synced", "shown"} /\ call[1].ok) => fingerprintCache = RosterPairs

\* C17 (cache frame on failure): when the request of syncSensorWithServer or
\* syncAndDisplayServerData came back with another status than 200 or with a
\* body that does not parse, the cache is what it was.
C17_CacheFrame ==
  (pc \in {"synced", "shown"} /\ call[1].asked /\ ~call[1].ok)
    => fingerprintCache = call[1].cache

\* A failed fetch by syncAndDisplayServerData with names in the cache.
C17_Witness ==
  /\ pc = "shown"
  /\ call[1].asked
  /\ ~call[1].ok
  /\ \E i \in Slots : fingerprintCache[i] # <<>>

\* The records of the pass under way that the server acknowledged in it.
AckedInPass == {i \in 1..Len(pass.start) : pass.start[i] \notin pass.failed}

\* C18 (drain counts): when a pass of syncOfflineLogs is over, syncedCount is
\* the number of records the server acknowledged in the pass, failedCount is
\* the number of records in the queue, and their sum is the number of
\* well-formed records the queue held when the pass began.
C18_DrainCounts ==
  pc = "return"
    => /\ syncedCount = Cardinality(AckedInPass)
       /\ failedCount = Len(Queue)
       /\ syncedCount + failedCount = Len(pass.start)

\* The queue [(3, t1), (7, t2)], 3 acknowledged and 7 refused: the queue is
\* [(7, t2)] and syncedCount is 1.
C18_Witness ==
  /\ pc = "return"
  /\ Len(pass.start) = 2
  /\ pass.start[1].id = 3
  /\ pass.start[2].id = 7
  /\ pass.start[1] \in acked
  /\ pass.start[2] \in wire
  /\ Queue = <<pass.start[2]>>
  /\ syncedCount = 1

\* C19 (connectivity lost during a drain): when a pass of syncOfflineLogs is
\* over, the queue is made of the records of the pass that the server has not
\* acknowledged, in their original order, whether they were refused or could
\* not be sent because WiFi had gone.
C19_OfflineDrain ==
  pc = "return"
    => /\ \A i \in 1..Len(pass.start) :
            pass.start[i] \notin acked => pass.start[i] \in Range(Queue)
       /\ \A i, j \in 1..Len(Queue) :
            i < j => \E k, l \in 1..Len(pass.start) :
                       k < l /\ pass.start[k] = Queue[i] /\ pass.start[l] = Queue[j]
       /\ Range(Queue) \subseteq Range(pass.start) \ acked

\* A pass that began online, had its first record acknowledged, lost WiFi,
\* and kept the record it could no longer send.
C19_Witness ==
  /\ pc = "return"
  /\ ~online
  /\ Len(pass.start) >= 2
  /\ pass.start[1] \in acked
  /\ pass.start[2] \notin wire
  /\ pass.start[2] \in Range(Queue)

\* C20: drain triggering.  Startup goes on to syncOfflineLogs if and only if
\* WiFi is connected at that point, and that call starts a drain if and only
\* if WiFi is still up and something is queued; a call of syncOfflineLogs
\* entered while WiFi is down starts no drain, transmits nothing and leaves
\* the queue file and the temporary file as they are, and no step taken
\* while WiFi is down transmits anything; the main loop starts a periodic
\* drain only while online and when more than 300000 ms have gone by since
\* the previous periodic attempt (since power-on when there was none).
C20_StartupDrain ==
  /\ (pc = "boot" /\ pc' \notin {"boot", "halted"}) => (pc' = "synced" <=> online')
  /\ (pc = "synced" /\ pc' \notin {"synced", "boot"})
       => (pc' = "read" <=> (online /\ ~NothingToRead(LOG_FILE)))

C20_OfflineCall ==
  /\ (pc \in {"idle", "synced"} /\ (~online \/ ~online'))
       => (pc' # "read" /\ UNCHANGED <<LOG_FILE, tempLogFile, wire>>)
  /\ ~online => UNCHANGED wire

C20_PeriodicDrain ==
  PeriodicSync => (online /\ timer.elapsed > SYNC_INTERVAL)

C21_EnrollReturns == (pc \in EnrollWaits) ~> (pc = "enrolled")

\* The naming wait alone: getFingerNameFromSerial is left.
C21_NamingReturns == (pc = "naming") ~> (pc = "enrolled")

\* The password wait and the naming wait apart, the waits for the sensor.
C21_SensorWaitsReturn == (pc \in {"place1", "lift", "place2"}) ~> (pc \notin {"place1", "lift", "place2"})

\* C22 (a failed capture leaves no trace): when enrollNewFingerprint is about
\* to return after an image capture, the merge or the store has failed, the
\* sensor's templates and the cache are as they were, and no registration
\* was requested (the roster is as it was).
C22_FailedCapture ==
  (pc = "enrolled" /\ call[1].online /\ UsableId(call[1].id) /\ call[1].capture # "stored")
    => /\ sensor = call[1].sensor
       /\ fingerprintCache = call[1].cache
       /\ ~call[1].asked
       /\ roster = call[1].roster

\* An enrollment given up because storeModel failed, with a usable
\* identifier and templates on the sensor.
C22_Witness ==
  /\ pc = "enrolled"
  /\ call[1].online
  /\ call[1].id = FreeId
  /\ call[1].capture = "storeModel"
  /\ sensor = Ids
  /\ fingerprintCache # EmptyCache

\* C23 (successful publish): when enrollNewFingerprint is about to return
\* after the registration of the template stored at X under name n was
\* answered with 200 or 201, cache entry X is n, the template is on the
\* sensor at X, and every other cache entry is as it was.
C23_Published ==
  (pc = "enrolled" /\ call[1].stored /\ call[1].acknowledged)
    => /\ fingerprintCache[call[1].id] = call[1].name
       /\ call[1].id \in sensor
       /\ \A i \in DOMAIN fingerprintCache \ {call[1].id} :
            fingerprintCache[i] = call[1].cache[i]

\* A registration answered with 201 while other cache entries hold names.
C23_Witness ==
  /\ pc = "enrolled"
  /\ call[1].stored
  /\ call[1].acknowledged
  /\ fingerprintCache[call[1].id] = <<"C", "a">>
  /\ call[1].cache[call[1].id] = <<>>
  /\ \E i \in Ids : fingerprintCache[i] # <<>>

\* C24 (naming timeout): when enrollNewFingerprint is about to return after
\* the naming window went by without a name ended by a line end, the name
\* used is the default "User_<id>", and it is the name published when the
\* registration is acknowledged.
C24_NamingTimeout ==
  (pc = "enrolled" /\ call[1].stored /\ ~NameEntered(call[1].typed, <<>>))
    => /\ call[1].name = DefaultName(call[1].id)
       /\ call[1].acknowledged => fingerprintCache[call[1].id] = call[1].name

\* The same where nothing but line ends arrived within the window.
C24_NothingTyped ==
  (pc = "enrolled" /\ call[1].stored /\ ReadName(call[1].typed, <<>>) = <<>>)
    => /\ call[1].name = DefaultName(call[1].id)
       /\ call[1].acknowledged => fingerprintCache[call[1].id] = call[1].name

\* Whatever arrives, enrollment goes on with a name that is not empty, and
\* publishes it when the registration is acknowledged.
C24_NameNeverEmpty ==
  (pc = "enrolled" /\ call[1].stored)
    => /\ call[1].name # <<>>
       /\ call[1].acknowledged => fingerprintCache[call[1].id] = call[1].name

\* What attemptToClearAllData found is what is there now: the sensor's
\* templates, the cache and the log file.
DeviceAsFound ==
  /\ sensor = call[1].sensor
  /\ fingerprintCache = call[1].cache
  /\ LOG_FILE = call[1].log

\* C25 (failed server clear): when attemptToClearAllData is about to return
\* after its clear request came back with a status other than 200, the
\* sensor's templates, the cache and the log file are as they were.
C25_FailedClear ==
  (pc = "cleared" /\ call[1].asked /\ call[1].code # 200) => DeviceAsFound

\* A clear request answered with 500 while templates, names and a queued
\* record are there.
C25_Witness ==
  /\ pc = "cleared"
  /\ call[1].asked
  /\ call[1].code = 500
  /\ sensor # {}
  /\ fingerprintCache # EmptyCache
  /\ Queue # <<>>

\* The password and its line end, and nothing before them.
ExactlyAdmin(typed) ==
  /\ Len(typed) >= 6
  /\ SubSeq(typed, 1, 5) = <<"a", "d", "m", "i", "n">>
  /\ typed[6] \in LineEnds

\* C26 (admin gate): when attemptToClearAllData is about to return, the clear
\* request was sent only if exactly "admin" and a line end were read; after
\* any other input, or none, the request was not sent and roster, sensor,
\* cache and log file are as they were; and they are changed only after the
\* request was sent.
C26_AdminGate ==
  pc = "cleared"
    => /\ call[1].asked => (call[1].online /\ ExactlyAdmin(call[1].typed))
       /\ ~ExactlyAdmin(call[1].typed)
            => (~call[1].asked /\ roster = call[1].roster /\ DeviceAsFound)
       /\ ~DeviceAsFound => call[1].asked

\* The wait for the password is left, and attemptToClearAllData returns.
C26_PasswordReturns == (pc = "password") ~> (pc = "idle")

\* The password typed after an empty line: refused, with templates, names
\* and a queued record left alone.
C26_Witness ==
  /\ pc = "cleared"
  /\ call[1].online
  /\ Len(call[1].typed) > 6
  /\ ~call[1].asked
  /\ sensor # {}
  /\ fingerprintCache # EmptyCache
  /\ Queue # <<>>

\* C27 (successful clear-all): when attemptToClearAllData is about to return
\* after the password was confirmed and the server answered 200, the sensor
\* holds no template, every cache entry is empty and the log file is gone.
C27_ClearedAll ==
  (pc = "cleared" /\ call[1].asked /\ call[1].code = 200)
    => /\ sensor = {}
       /\ fingerprintCache = EmptyCache
       /\ ~LOG_FILE.exists

\* The same for the cache and the log file alone.
C27_CacheAndQueueCleared ==
  (pc = "cleared" /\ call[1].asked /\ call[1].code = 200)
    => /\ fingerprintCache = EmptyCache
       /\ ~LOG_FILE.exists

\* The number of commas in a line.
Commas(line) == Cardinality({i \in 1..Len(line) : line[i] = COMMA})

\* A line without the separators its variant needs: no comma (basic), fewer
\* than two (extended).
LacksSeparators(line) ==
  line # <<>> /\ Commas(line) < (IF variant = "basic" THEN 1 ELSE 2)

\* The line the drain loop is about to read, trimmed.
NextLine == Trim(ReadStringUntil(unread).line)

\* C28 (malformed queue lines): a pass of the drain loop over a line that
\* lacks its separators transmits nothing, writes nothing to the temporary
\* file, counts nothing, and leaves the loop running on the rest of the
\* file; and the queue file a drain leaves has no such line and holds the
\* records of the pass that were not acknowledged.
C28_SkipsLine ==
  (pc = "read" /\ unread # <<>> /\ unread' # unread /\ LacksSeparators(NextLine))
    => /\ pc' = "read"
       /\ unread' = ReadStringUntil(unread).rest
       /\ UNCHANGED <<wire, served, tempLogFile, syncedCount, failedCount, pass>>

C28_NewQueue ==
  pc' = "return"
    => /\ \A i \in 1..Len(LinesOf(LOG_FILE'.data)) :
            ~LacksSeparators(LinesOf(LOG_FILE'.data)[i])
       /\ RecordsOf(variant, LOG_FILE'.data) = SelectSeq(pass'.start, LAMBDA r : r \in pass'.failed)

C28_MalformedLines == [][C28_SkipsLine /\ C28_NewQueue]_vars

\* The loop has ended over a file with a line that lacks its separators
\* ahead of a record: the record was transmitted, and the temporary file
\* holds neither.
C28_Witness ==
  /\ pc = "remove"
  /\ \E i, j \in 1..Len(LinesOf(LOG_FILE.data)) :
       /\ i < j
       /\ LacksSeparators(LinesOf(LOG_FILE.data)[i])
       /\ ParseLine(variant, LinesOf(LOG_FILE.data)[j]) \in acked
  /\ tempLogFile = EmptyFile
  /\ syncedCount = 2

\* C29 (fatal halt): the step in which the sensor fails verification leaves
\* WiFi unconnected and everything else as it was at power-on, and a halted
\* device takes no further step until its power is cut: no WiFi connection,
\* no roster sync, no drain, no scan, no enrollment, no pass of loop().
C29_FatalHalt ==
  [][ /\ pc = "halted" => (faults.power /\ pc' = "boot")
      /\ pc' = "halted"
           => /\ pc = "boot"
              /\ ~online'
              /\ UNCHANGED <<fingerprintCache, sensor, roster, sdVars, historyVars>> ]_vars

\* The device has halted at its first start, with templates on the sensor.
C29_Witness ==
  /\ pc = "halted"
  /\ ~online
  /\ sensor = Ids
  /\ wire = {}
  /\ call = <<>>

\* C30 (a failed roster fetch deletes nothing): when syncSensorWithServer has
\* returned after its roster request came back with a status other than 200
\* or with a body that could not be parsed, the sensor holds the templates
\* it held before.
C30_FailedFetchKeeps ==
  (pc = "synced" /\ call[1].op = "sync" /\ ~call[1].ok) => sensor = call[1].sensor

\* The same for the cache: a failed fetch leaves every entry as it was.
C30_FailedFetchKeepsCache ==
  (pc = "synced" /\ call[1].op = "sync" /\ ~call[1].ok) => fingerprintCache = call[1].cache

(***************************************************************************)
(* The secure client                                                       *)
(***************************************************************************)

\* The device of RosterSpec with the configuration of the secure client kept
\* in the state.
TlsSpec ==
  /\ InitDevice([power |-> TRUE, storage |-> 0, sensor |-> FALSE],
                Clock(FALSE), NoFile, NewClient(TRUE))
  /\ [][RosterNext]_vars

\* A handler has just issued a request to the server: the roster fetch of
\* syncSensorWithServer or syncAndDisplayServerData, the clear request, or
\* the next-id request of an enrollment.
C31_RequestIssued ==
  /\ call # <<>>
  /\ \/ call[1].op \in {"sync", "show", "clear"} /\ call[1].asked
     \/ call[1].op = "enroll" /\ call[1].online

\* C31 (TLS client configured before use): whenever a handler has issued a
\* request to the server, setInsecure() has configured the secure client
\* since the device was switched on.
C31_ConfiguredBeforeRequest == C31_RequestIssued => client.insecure

(***************************************************************************)
(* The queue line, written and read back                                   *)
(***************************************************************************)

\* Identifiers, Base64 templates and timestamps a record can carry: the ends
\* of the identifier range, one- and two-digit identifiers, templates of
\* digits (which read as numbers), with padding and with '+' and '/', and
\* timestamps from 1 to the largest 31-bit value.
LineIds == {0, 7, 10, 127}
LineTemplates ==
  { <<>>, <<"1", "2">>, <<"A", "Q", "=", "=">>, <<"+", "/", "9", "a">> }
LineTimestamps == {1, 10, 1762300800, 2147483647}

\* The records logAttendanceOffline can be called with: the basic sketch's
\* carry no template.
LineRecords(v) ==
  { Rec(id, tpl, ts) : id \in LineIds, ts \in LineTimestamps,
                       tpl \in IF v = "basic" THEN {<<>>} ELSE LineTemplates }

\* The device running with WiFi up, an empty SD card, and one attendance
\* event that is about to be queued.
LineInit ==
  /\ variant \in Variants
  /\ client = NewClient(FALSE)
  /\ twins = NewTwins
  /\ faults = [power |-> FALSE, storage |-> 0, sensor |-> FALSE]
  /\ timer = Clock(FALSE)
  /\ pc = "idle"
  /\ online = TRUE
  /\ now = T0
  /\ currentMenuState = "MAIN_MENU"
  /\ fingerprintCache = EmptyCache
  /\ sensor = Ids
  /\ roster = [i \in Ids |-> <<>>]
  /\ LOG_FILE = NoFile
  /\ tempLogFile = NoFile
  /\ unread = <<>>
  /\ syncedCount = 0
  /\ failedCount = 0
  /\ \E r \in LineRecords(variant) : events = {r}
  /\ wire = {}
  /\ served = EmptyCount
  /\ acked = {}
  /\ allAccepted = TRUE
  /\ wiped = {}
  /\ pass = NoPass
  /\ call = <<>>

\* logAttendanceOffline for the event, the write complete.
LineLogged ==
  /\ LoopRuns
  /\ call = <<>>
  /\ \E r \in events :
       \E line \in {FormatLine(variant, r.id, r.tpl, r.ts)} :
         LOG_FILE' = LogAttendanceOffline(LOG_FILE, line, Len(line))
  /\ call' = <<[op |-> "queued"]>>
  /\ UNCHANGED <<variant, client, twins, timer, faults, deviceVars, tempLogFile, drainVars>>
  /\ UNCHANGED <<events, wire, served, acked, allAccepted, wiped, pass>>

\* syncOfflineLogs, called from loop() once the line is in the file.
LineDrain ==
  /\ LoopRuns
  /\ call # <<>>
  /\ SyncOfflineLogs(online)
  /\ UNCHANGED <<variant, client, twins, timer, online, now, currentMenuState, fingerprintCache>>
  /\ UNCHANGED <<sensor, roster, LOG_FILE>>
  /\ UNCHANGED <<events, wire, served, acked, allAccepted, wiped, call>>

LineNext ==
  \/ LineLogged
  \/ LineDrain
  \/ SyncLine
  \/ SyncClose
  \/ SyncRemove
  \/ SyncRename
  \/ SyncReturn

LineSpec == LineInit /\ [][LineNext]_vars

\* C32 (queue line round trip): every record a drain transmits is the record
\* that was queued, with the same identifier, timestamp and template.
C32_RoundTrip == wire \subseteq events

\* A drain has transmitted the queued record with the largest identifier, a
\* padded template and a ten-digit timestamp.
C32_Witness ==
  /\ variant = "extended"
  /\ wire = {Rec(127, <<"A", "Q", "=", "=">>, 1762300800)}
  /\ pc = "read"

(***************************************************************************)
(* The two sketches side by side                                           *)
(***************************************************************************)
MaxSent == 3

\* What a call of logAttendanceToServer can come to: WiFi was down (no
\* request, no status), or it was up and the request came to a status.
Answers ==
  {[online |-> FALSE, code |-> 0]}
    \cup [online : {TRUE}, code : {200, 201, 500, -1}]

\* The template the extended sketch read for a scan (never empty); the basic
\* sketch's records carry none.
TwinTemplates == { <<"A", "Q", "=", "=">>, <<"1", "2">> }
TemplateOf(v, tpl) == IF v = "basic" THEN <<>> ELSE tpl

\* recordAttendance with a valid clock, as a function of the device: the
\* record is sent when WiFi is up and queued when it was not accepted.
TwinRecord(v, d, id, tpl, ts, a) ==
  LET line == FormatLine(v, id, tpl, ts)
  IN [ sent |-> IF a.online THEN Append(d.sent, Rec(id, tpl, ts)) ELSE d.sent,
       file |-> IF LogAttendanceToServer(a.online, a.code) THEN d.file
                ELSE LogAttendanceOffline(d.file, line, Len(line)) ]

\* The while loop of syncOfflineLogs from what is left to read: the n-th
\* record is offered to the server with the n-th answer.
RECURSIVE TwinDrainLoop(_, _, _, _, _, _)
TwinDrainLoop(v, rest, temp, sent, answers, n) ==
  IF rest = <<>> THEN [file |-> temp, sent |-> sent]
  ELSE LET r == ReadStringUntil(rest)
           line == Trim(r.line)
       IN IF line = <<>> \/ Malformed(v, line)
          THEN TwinDrainLoop(v, r.rest, temp, sent, answers, n)
          ELSE TwinDrainLoop(v, r.rest,
                 IF Retains(answers[n].online, answers[n].code)
                 THEN Println(temp, line) ELSE temp,
                 IF answers[n].online
                 THEN Append(sent, ParseLine(v, line)) ELSE sent,
                 answers, n + 1)

\* syncOfflineLogs as a function of the device: nothing without WiFi or
\* without a queue; otherwise the temporary file takes the queue's place.
TwinDrain(v, d, isOnline, answers) ==
  IF ~isOnline \/ NothingToRead(d.file) THEN d
  ELSE TwinDrainLoop(v, d.file.data, EmptyFile, d.sent, answers, 1)

\* The calls go on while the basic device has room in its queue and in its
\* history.
TwinPending == Len(RecordsOf("basic", twins["basic"].file.data))

\* Both devices record the same scan at the same time with WiFi in the same
\* state and the same answer from the server.
TwinsRecord ==
  /\ TwinPending < MaxEvents
  /\ Len(twins["basic"].sent) < MaxSent
  /\ \E id \in Ids, ts \in {T0, T0 + 1}, tpl \in TwinTemplates, a \in Answers :
       twins' = [v \in Variants |->
                   TwinRecord(v, twins[v], id, TemplateOf(v, tpl), ts, a)]
  /\ UNCHANGED <<variant, client, timer, faults, deviceVars, sdVars, drainVars>>
  /\ UNCHANGED historyVars

\* Both devices drain with WiFi in the same state and the same answers.
TwinsDrain ==
  /\ Len(twins["basic"].sent) + TwinPending <= MaxSent
  /\ \E isOnline \in BOOLEAN, answers \in [1..MaxEvents -> Answers] :
       twins' = [v \in Variants |-> TwinDrain(v, twins[v], isOnline, answers)]
  /\ UNCHANGED <<variant, client, timer, faults, deviceVars, sdVars, drainVars>>
  /\ UNCHANGED historyVars

TwinNext == TwinsRecord \/ TwinsDrain

TwinSpec == Init /\ [][TwinNext]_vars

\* A record without its template.
IdAndTime(r) == <<r.id, r.ts>>

\* What a device has transmitted and what its queue holds, templates left
\* out: the (id, timestamp) pairs in order, and whether the file exists.
WithoutTemplates(v, d) ==
  [ sent |-> [i \in 1..Len(d.sent) |-> IdAndTime(d.sent[i])],
    exists |-> d.file.exists,
    queue |-> LET q == RecordsOf(v, d.file.data)
              IN [i \in 1..Len(q) |-> IdAndTime(q[i])] ]

\* C33 (variant equivalence of the queue protocol): after any sequence of
\* recordAttendance and syncOfflineLogs calls made with the same connectivity
\* and the same answers, the basic and the extended sketch have transmitted
\* the same sequence of (id, timestamp) pairs and hold the same queue,
\* templates left out.
C33_VariantsAgree ==
  WithoutTemplates("extended", twins["extended"])
    = WithoutTemplates("basic", twins["basic"])

\* Both devices hold a refused record in the queue after a drain that
\* delivered the one before it.
C33_Witness ==
  /\ Len(twins["extended"].sent) = 3
  /\ Len(RecordsOf("extended", twins["extended"].file.data)) = 1
  /\ twins["extended"].file.data[Len(twins["extended"].file.data)] = NL
  /\ twins["extended"].file.data[Len(twins["extended"].file.data) - 1] = CR

(***************************************************************************)
(* A drain that cannot create its temporary file                           *)
(***************************************************************************)

\* The device switched on with a record waiting on an SD card that can fail:
\* its drains alone.
TempFileSpec ==
  /\ \E v \in Variants :
       /\ variant = v
       /\ InitState([power |-> FALSE, storage |-> MaxStorageFaults, sensor |-> FALSE],
                    Clock(FALSE), LeftOver(v))
  /\ [][DrainNext]_vars

\* syncOfflineLogs is called (by setup or by loop) and SD.open of the
\* temporary file fails.
C34_TempOpenFails ==
  /\ SetupDrain \/ PeriodicSync
  /\ faults'.storage < faults.storage

\* C34 (drain abort when the temporary store cannot be created): a call of
\* syncOfflineLogs whose temporary file cannot be opened returns at once,
\* having transmitted nothing and with the queue file as it was.
C34_AbortKeepsQueue ==
  [][C34_TempOpenFails =>
       /\ pc' = "idle"
       /\ wire' = wire
       /\ served' = served
       /\ LOG_FILE' = LOG_FILE]_vars

\* A drain has given up for want of its temporary file: the record is still
\* queued and nothing was sent.
C34_Witness ==
  /\ pc = "idle"
  /\ online
  /\ faults.storage < MaxStorageFaults
  /\ LOG_FILE = LeftOver(variant)
  /\ wire = {}

(***************************************************************************)
(* The menu                                                                *)
(***************************************************************************)

\* C35 (menu state after clear-all): whenever attemptToClearAllData is about
\* to return, whatever path it took, the menu state is MAIN_MENU.
C35_MainMenuAfterClear == pc = "cleared" => currentMenuState = "MAIN_MENU"

\* The same for the calls that found WiFi up: wrong password or timeout,
\* server failure, success.
C35_MainMenuAfterOnlineClear ==
  (pc = "cleared" /\ call[1].online) => currentMenuState = "MAIN_MENU"

\* C36 (menu gating): attemptToClearAllData starts only in the options menu,
\* enrollNewFingerprint only in the main menu, the options menu is entered
\* only by the long press (from the main menu, with no handler running), and
\* the short press in the options menu ends in the main menu.
C36_MenuGating ==
  [][/\ (pc' \in {"cleared", "password"} /\ pc = "idle")
          => currentMenuState = "OPTIONS_MENU"
     /\ (pc' \in {"enrolled", "place1"} /\ pc = "idle")
          => currentMenuState = "MAIN_MENU"
     /\ (currentMenuState' = "OPTIONS_MENU" /\ currentMenuState # "OPTIONS_MENU")
          => (LongPress /\ currentMenuState = "MAIN_MENU")
     /\ (pc = "shown" /\ pc' # "shown")
          => currentMenuState' = "MAIN_MENU"]_vars

\* The short press in the options menu has shown the roster and is about to
\* return.
C36_Witness ==
  /\ pc = "shown"
  /\ currentMenuState = "OPTIONS_MENU"
  /\ call[1].op = "show"

(***************************************************************************)
(* Indices into fingerprintCache[128]                                      *)
(***************************************************************************)

\* Identifiers at and around the ends of the cache: what the server can send
\* as the next free id or in a roster entry (an int), and the slots of the
\* sensor a match can report (finger.fingerID, a uint16_t; the sensor's
\* capacity is not the sketch's).
ServerIds == {0 - 1, 0, CacheSize - 1, CacheSize}
SensorSlots == {0, CacheSize - 1, CacheSize, 200}

\* An access to fingerprintCache[index] by a function.
CacheAccess(by, index) == [by |-> by, index |-> index]

\* The device running with WiFi up and an empty SD card, with these
\* templates on the sensor and this record kept for the properties.
RunningWith(templates, record) ==
  /\ variant \in Variants
  /\ client = NewClient(FALSE)
  /\ twins = NewTwins
  /\ faults = [power |-> FALSE, storage |-> 0, sensor |-> FALSE]
  /\ timer = Clock(FALSE)
  /\ pc = "idle"
  /\ online = TRUE
  /\ now = T0
  /\ currentMenuState = "MAIN_MENU"
  /\ fingerprintCache = EmptyCache
  /\ sensor = templates
  /\ roster = [i \in {} |-> <<>>]
  /\ LOG_FILE = NoFile
  /\ tempLogFile = NoFile
  /\ unread = <<>>
  /\ syncedCount = 0
  /\ failedCount = 0
  /\ events = {}
  /\ wire = {}
  /\ served = EmptyCount
  /\ acked = {}
  /\ allAccepted = TRUE
  /\ wiped = {}
  /\ pass = NoPass
  /\ call = <<record>>

\* Templates in slots of the sensor inside and outside the first 128, and no
\* access to the cache made yet.
IndexInit == RunningWith(SensorSlots, [op |-> "cache", used |-> {}])

\* The accesses made so far and these.
IndexUsed(accesses) ==
  /\ call' = <<[call[1] EXCEPT !.used = @ \cup accesses]>>
  /\ UNCHANGED <<variant, client, twins, timer, faults, deviceVars, sdVars, drainVars>>
  /\ UNCHANGED <<events, wire, served, acked, allAccepted, wiped, pass>>

\* scanForFingerprint on a match: fingerprintCache[finger.fingerID] is read.
IndexScan ==
  \E id \in sensor : IndexUsed({CacheAccess("scanForFingerprint", id)})

\* enrollNewFingerprint with the capture stored and the registration
\* acknowledged: fingerprintCache[newId] is written if newId passed the test.
IndexEnroll ==
  \E newId \in ServerIds :
    IndexUsed(IF UsableId(newId)
              THEN {CacheAccess("enrollNewFingerprint", newId)} ELSE {})

\* syncSensorWithServer and syncAndDisplayServerData, one roster entry:
\* fingerprintCache[id] is written if (id >= 0 && id < 128).
IndexFetch ==
  \E id \in ServerIds :
    IndexUsed(IF id >= 0 /\ id < CacheSize
              THEN {CacheAccess("syncSensorWithServer", id)} ELSE {})

\* attemptToClearAllData's loop over the cache.
IndexClear ==
  IndexUsed({CacheAccess("attemptToClearAllData", i) : i \in 0..(CacheSize - 1)})

IndexNext == IndexScan \/ IndexEnroll \/ IndexFetch \/ IndexClear

IndexSpec == IndexInit /\ [][IndexNext]_vars

\* C37 (cache index bounds): every read or write of the 128-entry cache uses
\* an index from 0 to 127.
C37_IndexInBounds ==
  \A a \in call[1].used : a.index >= 0 /\ a.index < CacheSize

\* The same for the accesses with an identifier that came from the server,
\* and the clearing loop.
C37_ServerIndexInBounds ==
  \A a \in call[1].used :
    a.by # "scanForFingerprint" => (a.index >= 0 /\ a.index < CacheSize)

(***************************************************************************)
(* getFingerprintTemplateAsBase64: the template buffer                     *)
(***************************************************************************)
TemplateSize == 512
MaxPackets == 4

\* The packet types the loop tells apart: acknowledgement, data, end of
\* data, and any other (here a command packet).
PacketTypes == {"ACK", "DATA", "ENDDATA", "COMMAND"}

\* Packet lengths the sensor can report in its 16-bit field: none, less than
\* the checksum, the checksum alone, the sensor's 128-byte payload, a whole
\* template in one packet, one byte more, and the largest.
PacketLengths == {0, 1, 2, 130, 514, 515, 65535}

\* How many bytes reach the serial port before readBytes gives up.
Arrivals == {0, 128, 600}

\* fingerSerial.readBytes(buffer, length - 2): the bytes stored.  The count
\* is a size_t: with length below 2 it wraps round to more than the stream
\* ever delivers, and everything that arrives is stored.
ReadBytes(length, arrives) ==
  IF length < 2 THEN arrives
  ELSE IF arrives < length - 2 THEN arrives ELSE length - 2

\* The locals of a call in its loop: index and endOfData; for the
\* properties, the packets read, the lowest and one past the highest
\* position of fingerprintTemplate stored to (both 0 before any store),
\* whether a length below 2 was seen, and what the call returned.
TemplateRead ==
  [ op |-> "template", index |-> 0, endOfData |-> FALSE, packets |-> 0,
    low |-> 0, high |-> 0, short |-> FALSE, returned |-> "nothing" ]

TemplateInit == RunningWith(Ids, TemplateRead)

\* The record kept after this step of the call.
TemplateStep(record) ==
  /\ call' = <<record>>
  /\ UNCHANGED <<variant, client, twins, timer, faults, deviceVars, sdVars, drainVars>>
  /\ UNCHANGED <<events, wire, served, acked, allAccepted, wiped, pass>>

\* One pass of the while loop that finds a packet header.
TemplatePacket ==
  /\ call[1].returned = "nothing"
  /\ ~call[1].endOfData
  /\ call[1].packets < MaxPackets
  /\ \E type \in PacketTypes, length \in PacketLengths, arrives \in Arrivals :
       LET c == [call[1] EXCEPT !.packets = @ + 1]
           stored == ReadBytes(length, arrives)
       IN IF type = "ACK" THEN TemplateStep(c)
          ELSE IF type \in {"DATA", "ENDDATA"}
          THEN IF c.index + length - 2 > TemplateSize
               THEN TemplateStep([c EXCEPT !.returned = "empty"])
               ELSE TemplateStep(
                      [c EXCEPT !.index = @ + (length - 2),
                                !.endOfData = (type = "ENDDATA"),
                                !.short = @ \/ length < 2,
                                !.low = IF stored > 0 /\ c.index < @
                                        THEN c.index ELSE @,
                                !.high = IF stored > 0 /\ c.index + stored > @
                                         THEN c.index + stored ELSE @])
          ELSE TemplateStep([c EXCEPT !.returned = "empty"])

\* The two seconds are over before the end of the data.
TemplateTimeout ==
  /\ call[1].returned = "nothing"
  /\ ~call[1].endOfData
  /\ TemplateStep([call[1] EXCEPT !.returned = "empty"])

\* The end of the data was read: base64Encode(fingerprintTemplate, index).
TemplateEncode ==
  /\ call[1].returned = "nothing"
  /\ call[1].endOfData
  /\ TemplateStep([call[1] EXCEPT !.returned = "encoded"])

TemplateNext == TemplatePacket \/ TemplateTimeout \/ TemplateEncode

TemplateSpec == TemplateInit /\ [][TemplateNext]_vars

\* C38 (template buffer bound): whatever packets and lengths the sensor
\* sends, index stays between 0 and 512 and nothing is stored outside the
\* 512 bytes of fingerprintTemplate.
C38_WithinBuffer ==
  /\ call[1].index >= 0
  /\ call[1].index <= TemplateSize
  /\ call[1].low >= 0
  /\ call[1].high <= TemplateSize

\* The same as long as every data packet reported a length of 2 or more.
C38_WithinBufferUnlessShort == call[1].short \/ C38_WithinBuffer

(***************************************************************************)
(* base64Encode                                                            *)
(***************************************************************************)
MaxBytes == 4

\* Bytes of a template: the extremes and the letters of "Man".
Bytes == {0, 77, 97, 110, 255}

\* The byte strings of up to MaxBytes bytes.
ByteStrings == UNION {[1..n -> Bytes] : n \in 0..MaxBytes}

\* const char* b64_chars.
b64_chars ==
  << "A", "B", "C", "D", "E", "F", "G", "H", "I", "J", "K", "L", "M",
     "N", "O", "P", "Q", "R", "S", "T", "U", "V", "W", "X", "Y", "Z",
     "a", "b", "c", "d", "e", "f", "g", "h", "i", "j", "k", "l", "m",
     "n", "o", "p", "q", "r", "s", "t", "u", "v", "w", "x", "y", "z",
     "0", "1", "2", "3", "4", "5", "6", "7", "8", "9", "+", "/" >>

\* char_array_4[0..3] from char_array_3[0..2], with the masks and shifts as
\* divisions and remainders.
CharArray4(a) ==
  << a[1] \div 4,
     ((a[1] % 4) * 16) + (a[2] \div 16),
     ((a[2] % 16) * 4) + (a[3] \div 64),
     a[3] % 64 >>

\* ret += b64_chars[char_array_4[j]] for the first count entries.
RECURSIVE Base64Chars(_, _)
Base64Chars(a4, count) ==
  IF count = 0 THEN <<>>
  ELSE Base64Chars(a4, count - 1) \o <<b64_chars[a4[count] + 1]>>

\* An encoder that leaves the padding out.
Base64NoPadding(i) == <<>>

\* while ((i++ < 3)) ret += '=': one '=' for each byte missing in the group.
Base64Padding(i) == [j \in 1..(3 - i) |-> "="]

\* if (i): the last one or two bytes, filled up with zero bytes; i + 1
\* characters and the padding.
Base64Rest(a3) ==
  IF a3 = <<>> THEN <<>>
  ELSE Base64Chars(CharArray4(a3 \o [j \in 1..(3 - Len(a3)) |-> 0]), Len(a3) + 1)
         \o Base64Padding(Len(a3))

\* The while loop over the input from what is left of it, the bytes gathered
\* in char_array_3 and the text so far.
RECURSIVE Base64Loop(_, _, _)
Base64Loop(data, a3, ret) ==
  IF data = <<>> THEN ret \o Base64Rest(a3)
  ELSE IF Len(a3) = 2
  THEN Base64Loop(Tail(data), <<>>,
                  ret \o Base64Chars(CharArray4(Append(a3, Head(data))), 4))
  ELSE Base64Loop(Tail(data), Append(a3, Head(data)), ret)

\* base64Encode(data, input_length).
Base64Encode(data) == Base64Loop(data, <<>>, <<>>)

\* The device running, and a byte string about to be encoded.
Base64Init ==
  \E data \in ByteStrings :
    RunningWith(Ids, [op |-> "base64", data |-> data, ret |-> <<>>, done |-> FALSE])

\* The call of base64Encode.
Base64Call ==
  /\ ~call[1].done
  /\ call' = <<[call[1] EXCEPT !.ret = Base64Encode(call[1].data), !.done = TRUE]>>
  /\ UNCHANGED <<variant, client, twins, timer, faults, deviceVars, sdVars, drainVars>>
  /\ UNCHANGED <<events, wire, served, acked, allAccepted, wiped, pass>>

Base64Spec == Base64Init /\ [][Base64Call]_vars

\* RFC 4648, section 4, read off the text: the input as a string of bits,
\* most significant first, filled up with zero bits to a multiple of six;
\* each group of six bits an index into the alphabet; '=' up to a multiple
\* of four characters.
Rfc4648Bit(data, k) ==
  IF k > 8 * Len(data) THEN 0
  ELSE (data[((k - 1) \div 8) + 1] \div (2 ^ (7 - ((k - 1) % 8)))) % 2

Rfc4648Group(data, g) ==
  32 * Rfc4648Bit(data, 6 * g - 5) + 16 * Rfc4648Bit(data, 6 * g - 4)
    + 8 * Rfc4648Bit(data, 6 * g - 3) + 4 * Rfc4648Bit(data, 6 * g - 2)
    + 2 * Rfc4648Bit(data, 6 * g - 1) + Rfc4648Bit(data, 6 * g)

Rfc4648(data) ==
  LET groups == (8 * Len(data) + 5) \div 6
      quads == (groups + 3) \div 4
  IN [g \in 1..(4 * quads) |->
        IF g <= groups THEN b64_chars[Rfc4648Group(data, g) + 1] ELSE "="]

\* C39 (base64Encode is standard Base64): for every byte string the result
\* is the RFC 4648 encoding with '=' padding; it has 4 * ceil(n / 3)
\* characters for n bytes, none for no bytes, and holds no comma and no line
\* end.
C39_StandardBase64 ==
  call[1].done =>
    /\ call[1].ret = Rfc4648(call[1].data)
    /\ Len(call[1].ret) = 4 * ((Len(call[1].data) + 2) \div 3)
    /\ (call[1].data = <<>> => call[1].ret = <<>>)
    /\ \A k \in 1..Len(call[1].ret) : call[1].ret[k] \notin {COMMA, NL, CR}

\* "Ma" has been encoded as "TWE=".
C39_Witness ==
  /\ call[1].done
  /\ call[1].data = <<77, 97>>
  /\ call[1].ret = <<"T", "W", "E", "=">>

=============================================================================
